---- MODULE Spec2Model ----
(***************************************************************************)
(* A model of jsonpatch.Apply (src/jsonpatch/jsonpatch.go, lines 1-657).   *)
(*                                                                         *)
(* Go strings are sequences of code points (the documents hold valid       *)
(* UTF-8, as encoding/json produces); ASCII characters are written by      *)
(* their code.  Go's reference types are modelled by a heap: a map value   *)
(* is a reference to a map object, a slice value is a header (backing      *)
(* array, length) whose capacity is the length of the backing array.       *)
(***************************************************************************)
EXTENDS Integers, Sequences, FiniteSets, TLC

\* ------------------------------------------------------------------ bounds
MaxOps == 2          \* operations in one batch
MaxSlack == 1        \* spare capacity append may allocate beyond the new length
MaxDepth == 4        \* nesting depth to which a document is unfolded when compared
IntBits == 18        \* bits of Go's int as the model has it (64 in the builds modelled)

\* -------------------------------------------------------------- characters
chSlash == 47
chTilde == 126
chDash == 45
chPlus == 43
chZero == 48
chOne == 49
chNine == 57
MaxBMP == 65535

\* ------------------------------------------------------------------ values
Null == [t |-> "null"]
Absent == [t |-> "absent"]
Bool(b) == [t |-> "bool", b |-> b]
\* a number: its Go type and twice its value (so that halves are exact)
Num(w, x2) == [t |-> "num", w |-> w, x2 |-> x2]
IntV(n) == Num("int", 2 * n)
FloatV(x2) == Num("float64", x2)
Str(s) == [t |-> "str", s |-> s]
MapRef(id) == [t |-> "map", id |-> id]
Slice(arr, len) == [t |-> "list", arr |-> arr, len |-> len]

Put(m, k, v) == [x \in (DOMAIN m) \cup {k} |-> IF x = k THEN v ELSE m[x]]
\* a deletion that leaves the entry in
Keep(m, k) == m
Del(m, k) == [x \in (DOMAIN m) \ {k} |-> m[x]]
EmptyMap == [x \in {} |-> Null]

\* the heap: map objects and backing arrays, each a sequence indexed by id
SetMap(H, id, m) == [H EXCEPT !.maps[id] = m]
SetArr(H, id, a) == [H EXCEPT !.arrs[id] = a]
Cap(H, sl) == Len(H.arrs[sl.arr])
ElemAt(H, sl, i) == H.arrs[sl.arr][i + 1]
SetElem(H, sl, i, v) == [H EXCEPT !.arrs[sl.arr][i + 1] = v]

\* ----------------------------------------------------------------- strings
HasPrefix(s, p) == Len(p) <= Len(s) /\ SubSeq(s, 1, Len(p)) = p
TrimPrefix(s, p) == IF HasPrefix(s, p) THEN SubSeq(s, Len(p) + 1, Len(s)) ELSE s

RECURSIVE Split(_, _)
Split(s, sep) ==
  IF \A i \in 1..Len(s) : s[i] # sep THEN <<s>>
  ELSE LET k == CHOOSE i \in 1..Len(s) : s[i] = sep /\ \A j \in 1..(i - 1) : s[j] # sep
       IN <<SubSeq(s, 1, k - 1)>> \o Split(SubSeq(s, k + 1, Len(s)), sep)

RECURSIVE AtoiDigits(_, _, _)
AtoiDigits(s, i, n) ==
  IF i > Len(s) THEN [ok |-> TRUE, n |-> n]
  ELSE IF s[i] < chZero \/ s[i] > chNine THEN [ok |-> FALSE, n |-> 0]
  ELSE AtoiDigits(s, i + 1, n * 10 + (s[i] - chZero))

\* strconv.Atoi: an optional sign and at least one decimal digit
Atoi(s) ==
  IF Len(s) = 0 THEN [ok |-> FALSE, n |-> 0]
  ELSE IF s[1] = chDash \/ s[1] = chPlus
    THEN IF Len(s) < 2 THEN [ok |-> FALSE, n |-> 0]
         ELSE LET r == AtoiDigits(s, 2, 0)
              IN IF s[1] = chDash THEN [ok |-> r.ok, n |-> 0 - r.n] ELSE r
  ELSE AtoiDigits(s, 1, 0)

RECURSIVE decodeFrom(_, _)
decodeFrom(segment, i) ==
  IF i > Len(segment) THEN [ok |-> TRUE, s |-> <<>>]
  ELSE IF segment[i] # chTilde
    THEN LET r == decodeFrom(segment, i + 1)
         IN [ok |-> r.ok, s |-> IF r.ok THEN <<segment[i]>> \o r.s ELSE <<>>]
  ELSE IF i + 1 > Len(segment) THEN [ok |-> FALSE, s |-> <<>>]
  ELSE IF segment[i + 1] \notin {chZero, chOne} THEN [ok |-> FALSE, s |-> <<>>]
  ELSE LET r == decodeFrom(segment, i + 2)
           c == IF segment[i + 1] = chZero THEN chTilde ELSE chSlash
       IN [ok |-> r.ok, s |-> IF r.ok THEN <<c>> \o r.s ELSE <<>>]

\* a decoder in two passes, '~0' first
RECURSIVE replacePair(_, _, _)
replacePair(s, d, c) ==
  IF Len(s) < 2 THEN s
  ELSE IF s[1] = chTilde /\ s[2] = d THEN <<c>> \o replacePair(SubSeq(s, 3, Len(s)), d, c)
  ELSE <<s[1]>> \o replacePair(Tail(s), d, c)
decodeTwoPasses(segment) ==
  [ok |-> TRUE, s |-> replacePair(replacePair(segment, chZero, chTilde), chOne, chSlash)]

decodePointerSegment(segment) == decodeFrom(segment, 1)

\* ----------------------------------------------------------- path resolver
ResErr(e) ==
  [err |-> e, parent |-> Null, finalKey |-> <<>>, finalIndex |-> 0,
   cp |-> Null, cpKey |-> <<>>, cpIdx |-> 0]

\* a resolver that checks the last index against the length of the List
resolveFinalInRange(cur, leaf, prevC, prevK, prevI) ==
  LET base == [err |-> "none", parent |-> cur, finalKey |-> <<>>, finalIndex |-> 0,
               cp |-> prevC, cpKey |-> prevK, cpIdx |-> prevI]
  IN CASE cur.t = "map" -> [base EXCEPT !.finalKey = leaf]
       [] cur.t = "list" ->
            IF leaf = <<chDash>> THEN [base EXCEPT !.finalIndex = cur.len]
            ELSE LET a == Atoi(leaf)
                 IN IF ~a.ok THEN [base EXCEPT !.err = "InvalidIndex"]
                    ELSE IF a.n < 0 \/ a.n > cur.len THEN [base EXCEPT !.err = "IndexOutOfBounds"]
                    ELSE [base EXCEPT !.finalIndex = a.n]
       [] OTHER -> [base EXCEPT !.err = "NonContainerBeforeFinal"]

resolveFinal(cur, leaf, prevC, prevK, prevI) ==
  LET base == [err |-> "none", parent |-> cur, finalKey |-> <<>>, finalIndex |-> 0,
               cp |-> prevC, cpKey |-> prevK, cpIdx |-> prevI]
  IN CASE cur.t = "map" -> [base EXCEPT !.finalKey = leaf]
       [] cur.t = "list" ->
            IF leaf = <<chDash>> THEN [base EXCEPT !.finalIndex = cur.len]
            ELSE LET a == Atoi(leaf)
                 IN IF ~a.ok THEN [base EXCEPT !.err = "InvalidIndex"]
                    ELSE [base EXCEPT !.finalIndex = a.n]
       [] OTHER -> [base EXCEPT !.err = "NonContainerBeforeFinal"]

RECURSIVE resolveWalk(_, _, _, _, _, _, _)
resolveWalk(H, segs, i, cur, prevC, prevK, prevI) ==
  LET dec == decodePointerSegment(segs[i])
  IN IF ~dec.ok THEN ResErr("InvalidPointer")
     ELSE IF i = Len(segs) THEN resolveFinal(cur, dec.s, prevC, prevK, prevI)
     ELSE CASE cur.t = "map" ->
                 IF dec.s \notin DOMAIN H.maps[cur.id] THEN ResErr("PathNotFound")
                 ELSE resolveWalk(H, segs, i + 1, H.maps[cur.id][dec.s], cur, dec.s, -1)
            [] cur.t = "list" ->
                 LET a == Atoi(dec.s)
                 IN IF ~a.ok THEN ResErr("InvalidIndex")
                    ELSE IF a.n < 0 \/ a.n >= cur.len THEN ResErr("IndexOutOfBounds")
                    ELSE resolveWalk(H, segs, i + 1, ElemAt(H, cur, a.n), cur, <<>>, a.n)
            [] OTHER -> ResErr("NonContainerTraversal")

\* the document is the map object 1 for the whole call
Doc == MapRef(1)

resolvePath(H, pathRaw) ==
  IF pathRaw = <<>> THEN [ResErr("none") EXCEPT !.parent = Doc]
  ELSE resolveWalk(H, Split(TrimPrefix(pathRaw, <<chSlash>>), chSlash), 1, Doc, Null, <<>>, 0)

\* ----------------------------------------------------------- slice helpers
\* append(slice, x): in place while capacity lasts, else a new backing array
\* holding the old elements, x, and g spare (nil) slots
appendSlice(H, sl, x, g) ==
  IF sl.len < Cap(H, sl)
    THEN [H |-> SetElem(H, sl, sl.len, x), sl |-> Slice(sl.arr, sl.len + 1)]
    ELSE LET new == [j \in 1..(sl.len + 1 + g) |->
                       IF j <= sl.len THEN H.arrs[sl.arr][j]
                       ELSE IF j = sl.len + 1 THEN x ELSE Null]
         IN [H |-> [H EXCEPT !.arrs = Append(@, new)],
             sl |-> Slice(Len(H.arrs) + 1, sl.len + 1)]

insertValueIntoSlice(H, sl, index, value, g) ==
  IF index = sl.len THEN appendSlice(H, sl, value, g)
  ELSE LET a == appendSlice(H, sl, Null, g)
           old == a.H.arrs[a.sl.arr]
           new == [j \in 1..Len(old) |->
                     IF j = index + 1 THEN value
                     ELSE IF j > index + 1 /\ j <= a.sl.len THEN old[j - 1]
                     ELSE old[j]]
       IN [H |-> SetArr(a.H, a.sl.arr, new), sl |-> a.sl]

removeValueFromSlice(H, sl, index) ==
  LET old == H.arrs[sl.arr]
      last == sl.len - 1
      new == [j \in 1..Len(old) |->
                IF j >= index + 1 /\ j <= last THEN old[j + 1]
                ELSE IF j = last + 1 THEN Null
                ELSE old[j]]
  IN [H |-> SetArr(H, sl.arr, new), sl |-> Slice(sl.arr, last), val |-> old[index + 1]]

assignSliceToParent(H, parent, key, index, updated) ==
  CASE parent.t = "map" ->
         [H |-> SetMap(H, parent.id, Put(H.maps[parent.id], key, updated)), err |-> "none"]
    [] parent.t = "list" ->
         IF index < 0 \/ index >= parent.len THEN [H |-> H, err |-> "Internal"]
         ELSE [H |-> SetElem(H, parent, index, updated), err |-> "none"]
    [] OTHER -> [H |-> H, err |-> "Internal"]

\* ------------------------------------------------------ equality comparator
\* fmt.Sprintf("%v", v), for the comparator's last-resort branch
RECURSIVE fmtNat(_)
fmtNat(n) == IF n < 10 THEN <<chZero + n>> ELSE fmtNat(n \div 10) \o <<chZero + (n % 10)>>

fmtNum(x2) ==
  LET a == IF x2 < 0 THEN 0 - x2 ELSE x2
  IN (IF x2 < 0 THEN <<chDash>> ELSE <<>>) \o fmtNat(a \div 2)
       \o (IF a % 2 = 1 THEN <<46, 53>> ELSE <<>>)

RECURSIVE strLess(_, _)
strLess(a, b) ==
  IF b = <<>> THEN FALSE
  ELSE IF a = <<>> THEN TRUE
  ELSE IF a[1] # b[1] THEN a[1] < b[1]
  ELSE strLess(Tail(a), Tail(b))

RECURSIVE fmtValue(_, _)
RECURSIVE fmtMapEntries(_, _, _)
RECURSIVE fmtListElems(_, _, _)
fmtMapEntries(H, m, keys) ==
  IF keys = {} THEN <<>>
  ELSE LET k == CHOOSE x \in keys : \A y \in keys \ {x} : strLess(x, y)
       IN k \o <<58>> \o fmtValue(H, m[k])
            \o (IF keys = {k} THEN <<>> ELSE <<32>> \o fmtMapEntries(H, m, keys \ {k}))
fmtListElems(H, sl, i) ==
  IF i >= sl.len THEN <<>>
  ELSE fmtValue(H, ElemAt(H, sl, i))
         \o (IF i + 1 >= sl.len THEN <<>> ELSE <<32>> \o fmtListElems(H, sl, i + 1))
fmtValue(H, v) ==
  CASE v.t = "str" -> v.s
    [] v.t = "bool" -> IF v.b THEN <<116, 114, 117, 101>> ELSE <<102, 97, 108, 115, 101>>
    [] v.t = "null" -> <<60, 110, 105, 108, 62>>
    [] v.t = "num" -> fmtNum(v.x2)
    [] v.t = "map" -> <<109, 97, 112, 91>> \o fmtMapEntries(H, H.maps[v.id], DOMAIN H.maps[v.id]) \o <<93>>
    [] v.t = "list" -> <<91>> \o fmtListElems(H, v, 0) \o <<93>>

NumericTypes == {"float64", "int", "int32", "int64"}

\* float64 keeps 53 significant bits, 11 fewer than int has; the model's
\* float64 keeps as many fewer than the model's int
MantBits == IntBits - 11

RECURSIVE Log2(_)
Log2(a) == IF a < 2 THEN 0 ELSE 1 + Log2(a \div 2)
\* a to the nearest multiple of q, ties to the even multiple
RoundTo(a, q) ==
  IF 2 * (a % q) < q \/ (2 * (a % q) = q /\ (a \div q) % 2 = 0) THEN a - (a % q)
  ELSE a - (a % q) + q
\* the float64 nearest to a real number (both held as twice their value)
RoundAbs(a) == IF a < 2 ^ MantBits THEN a ELSE RoundTo(a, 2 ^ (Log2(a) - MantBits + 1))
toFloat64(x2) == IF x2 >= 0 THEN RoundAbs(x2) ELSE 0 - RoundAbs(0 - x2)

getNumericValue(val) ==
  IF val.t = "num" /\ val.w \in NumericTypes THEN [ok |-> TRUE, x2 |-> toFloat64(val.x2)]
  ELSE [ok |-> FALSE, x2 |-> 0]

\* the integer part of a number held as twice its value (toward zero)
TruncInt(x2) == IF x2 >= 0 THEN x2 \div 2 ELSE 0 - ((0 - x2) \div 2)

\* the range of int, and the platform the package was built for: what int(f)
\* yields for an f beyond that range is the platform's choice
MaxInt == 2 ^ (IntBits - 1) - 1
MinInt == 0 - 2 ^ (IntBits - 1)
Builds == {"amd64", "arm64"}
\* the sum of two ints as the machine has it
wrapInt(x) == ((x - MinInt) % (2 ^ IntBits)) + MinInt

VARIABLE build

\* a conversion to the nearest integer, halves upward
toIntNearest(x2) == (x2 + 1) \div 2

\* int(f) for a float64 f: the integer part when int can hold it; beyond it
\* amd64 yields the smallest int whatever the sign, arm64 the nearest int
toInt(x2) ==
  IF TruncInt(x2) >= MinInt /\ TruncInt(x2) <= MaxInt THEN TruncInt(x2)
  ELSE IF build = "amd64" THEN MinInt
  ELSE IF x2 > 0 THEN MaxInt ELSE MinInt

\* a comparator that takes numbers of different Go types for different
RECURSIVE jsonEqualTagged(_, _, _)
jsonEqualTagged(H, a, b) ==
  CASE a.t = "map" ->
         /\ b.t = "map"
         /\ DOMAIN H.maps[a.id] = DOMAIN H.maps[b.id]
         /\ \A k \in DOMAIN H.maps[a.id] : jsonEqualTagged(H, H.maps[a.id][k], H.maps[b.id][k])
    [] a.t = "list" ->
         /\ b.t = "list"
         /\ a.len = b.len
         /\ \A i \in 0..(a.len - 1) : jsonEqualTagged(H, ElemAt(H, a, i), ElemAt(H, b, i))
    [] OTHER -> a = b

RECURSIVE jsonEqual(_, _, _)
jsonEqual(H, a, b) ==
  IF getNumericValue(a).ok
    THEN getNumericValue(b).ok /\ getNumericValue(a).x2 = getNumericValue(b).x2
  ELSE CASE a.t = "str" -> b.t = "str" /\ a.s = b.s
         [] a.t = "bool" -> b.t = "bool" /\ a.b = b.b
         [] a.t = "null" -> b.t = "null"
         [] a.t = "map" ->
              /\ b.t = "map"
              /\ Cardinality(DOMAIN H.maps[a.id]) = Cardinality(DOMAIN H.maps[b.id])
              /\ \A k \in DOMAIN H.maps[a.id] :
                   /\ k \in DOMAIN H.maps[b.id]
                   /\ jsonEqual(H, H.maps[a.id][k], H.maps[b.id][k])
         [] a.t = "list" ->
              /\ b.t = "list"
              /\ a.len = b.len
              /\ \A i \in 0..(a.len - 1) : jsonEqual(H, ElemAt(H, a, i), ElemAt(H, b, i))
         [] OTHER -> fmtValue(H, a) = fmtValue(H, b)

\* --------------------------------------------------------- index translator
UnitsOf(r) == IF r > MaxBMP THEN 2 ELSE 1

RECURSIVE utf16Walk(_, _, _, _)
utf16Walk(text, jsOffset, k, codeUnits) ==
  IF k > Len(text) THEN k - 1
  ELSE IF codeUnits + UnitsOf(text[k]) > jsOffset THEN k - 1
  ELSE utf16Walk(text, jsOffset, k + 1, codeUnits + UnitsOf(text[k]))

\* a translator that takes the offset for a count of code points
runeOffsetAsIs(text, jsOffset) ==
  IF jsOffset <= 0 THEN 0 ELSE IF jsOffset > Len(text) THEN Len(text) ELSE jsOffset

\* a translator that counts a code point as soon as the offset reaches into it
RECURSIVE utf16WalkUp(_, _, _, _)
utf16WalkUp(text, jsOffset, k, codeUnits) ==
  IF k > Len(text) THEN k - 1
  ELSE IF codeUnits >= jsOffset THEN k - 1
  ELSE utf16WalkUp(text, jsOffset, k + 1, codeUnits + UnitsOf(text[k]))
utf16OffsetRoundedUp(text, jsOffset) ==
  IF jsOffset <= 0 THEN 0 ELSE utf16WalkUp(text, jsOffset, 1, 0)

utf16OffsetToRuneIndex(text, jsOffset) ==
  IF jsOffset <= 0 THEN 0 ELSE utf16Walk(text, jsOffset, 1, 0)

utf16LenToRuneLen(text, jsStart, jsLen) ==
  IF jsLen <= 0 THEN 0
  ELSE utf16OffsetToRuneIndex(text, wrapInt(jsStart + jsLen))
         - utf16OffsetToRuneIndex(text, jsStart)

\* a length counted in code points
runeCount(text) == Len(text)

RECURSIVE utf16Length(_)
utf16Length(text) ==
  IF text = <<>> THEN 0 ELSE UnitsOf(text[1]) + utf16Length(Tail(text))

\* ------------------------------------------------------ operation dispatcher
\* operation kinds, as the strings Apply switches on
kAdd == <<97, 100, 100>>
kRemove == <<114, 101, 109, 111, 118, 101>>
kReplace == <<114, 101, 112, 108, 97, 99, 101>>
kStrIns == <<115, 116, 114, 95, 105, 110, 115>>
kStrDel == <<115, 116, 114, 95, 100, 101, 108>>
kInc == <<105, 110, 99>>
kCopy == <<99, 111, 112, 121>>
kMove == <<109, 111, 118, 101>>
kTest == <<116, 101, 115, 116>>

Ok(H) == [H |-> H, err |-> "none"]
Fail(H, e) == [H |-> H, err |-> e]

\* the insertion that add, copy and move share
\* an insertion that appends the value before it refuses an index out of range
insertAtTargetEager(H, r, value, g) ==
  CASE r.parent.t = "map" ->
         Ok(SetMap(H, r.parent.id, Put(H.maps[r.parent.id], r.finalKey, value)))
    [] r.parent.t = "list" ->
         LET k == IF r.finalIndex < 0 \/ r.finalIndex > r.parent.len
                    THEN r.parent.len ELSE r.finalIndex
             ins == insertValueIntoSlice(H, r.parent, k, value, g)
             done == assignSliceToParent(ins.H, r.cp, r.cpKey, r.cpIdx, ins.sl)
         IN IF k # r.finalIndex THEN Fail(done.H, "IndexOutOfBounds") ELSE done
    [] OTHER -> Fail(H, "NonContainerBeforeFinal")

insertAtTarget(H, r, value, g) ==
  CASE r.parent.t = "map" ->
         Ok(SetMap(H, r.parent.id, Put(H.maps[r.parent.id], r.finalKey, value)))
    [] r.parent.t = "list" ->
         IF r.finalIndex < 0 \/ r.finalIndex > r.parent.len THEN Fail(H, "IndexOutOfBounds")
         ELSE LET ins == insertValueIntoSlice(H, r.parent, r.finalIndex, value, g)
              IN assignSliceToParent(ins.H, r.cp, r.cpKey, r.cpIdx, ins.sl)
    [] OTHER -> Fail(H, "NonContainerBeforeFinal")

opAdd(H, op, r, g) ==
  IF op.value = Absent THEN Fail(H, "MissingField")
  ELSE insertAtTarget(H, r, op.value, g)

opRemove(H, op, r) ==
  CASE r.parent.t = "map" ->
         IF r.finalKey \notin DOMAIN H.maps[r.parent.id] THEN Fail(H, "PathNotFound")
         ELSE Ok(SetMap(H, r.parent.id, Del(H.maps[r.parent.id], r.finalKey)))
    [] r.parent.t = "list" ->
         IF r.finalIndex < 0 \/ r.finalIndex >= r.parent.len THEN Fail(H, "IndexOutOfBounds")
         ELSE LET rem == removeValueFromSlice(H, r.parent, r.finalIndex)
              IN assignSliceToParent(rem.H, r.cp, r.cpKey, r.cpIdx, rem.sl)
    [] OTHER -> Fail(H, "NonContainerBeforeFinal")

\* targetMap[finalKey] = v or targetSlice[finalIndex] = v
storeAtTarget(H, r, v) ==
  CASE r.parent.t = "map" -> SetMap(H, r.parent.id, Put(H.maps[r.parent.id], r.finalKey, v))
    [] r.parent.t = "list" -> SetElem(H, r.parent, r.finalIndex, v)
    [] OTHER -> H

opReplace(H, op, r) ==
  IF op.value = Absent THEN Fail(H, "MissingField")
  ELSE CASE r.parent.t = "map" ->
              IF r.finalKey \notin DOMAIN H.maps[r.parent.id] THEN Fail(H, "PathNotFound")
              ELSE Ok(storeAtTarget(H, r, op.value))
         [] r.parent.t = "list" ->
              IF r.finalIndex < 0 \/ r.finalIndex >= r.parent.len THEN Fail(H, "IndexOutOfBounds")
              ELSE Ok(storeAtTarget(H, r, op.value))
         [] OTHER -> Fail(H, "NonContainerBeforeFinal")

\* a read that takes an absent key of a Map for a zero
readTargetOrZero(H, r) ==
  CASE r.parent.t = "map" ->
         IF r.finalKey \notin DOMAIN H.maps[r.parent.id] THEN [err |-> "none", val |-> IntV(0)]
         ELSE [err |-> "none", val |-> H.maps[r.parent.id][r.finalKey]]
    [] r.parent.t = "list" ->
         IF r.finalIndex < 0 \/ r.finalIndex >= r.parent.len
           THEN [err |-> "IndexOutOfBounds", val |-> Null]
           ELSE [err |-> "none", val |-> ElemAt(H, r.parent, r.finalIndex)]
    [] OTHER -> [err |-> "NonContainerBeforeFinal", val |-> Null]

\* the value an operation reads at its target: [err, val]
readTarget(H, r) ==
  CASE r.parent.t = "map" ->
         IF r.finalKey \notin DOMAIN H.maps[r.parent.id] THEN [err |-> "PathNotFound", val |-> Null]
         ELSE [err |-> "none", val |-> H.maps[r.parent.id][r.finalKey]]
    [] r.parent.t = "list" ->
         IF r.finalIndex < 0 \/ r.finalIndex >= r.parent.len
           THEN [err |-> "IndexOutOfBounds", val |-> Null]
           ELSE [err |-> "none", val |-> ElemAt(H, r.parent, r.finalIndex)]
    [] OTHER -> [err |-> "NonContainerBeforeFinal", val |-> Null]

opStrIns(H, op, r) ==
  LET posN == getNumericValue(op.pos)
  IN IF op.pos = Absent \/ ~posN.ok \/ op.str.t # "str" THEN Fail(H, "InvalidParams")
     ELSE LET cur == readTarget(H, r)
          IN IF cur.err # "none" THEN Fail(H, cur.err)
             ELSE IF cur.val.t # "str" THEN Fail(H, "TypeMismatch")
             ELSE IF toInt(posN.x2) > utf16Length(cur.val.s) THEN Fail(H, "InvalidPosition")
             ELSE LET runes == cur.val.s
                      pos == utf16OffsetToRuneIndex(runes, toInt(posN.x2))
                  IN IF pos < 0 \/ pos > Len(runes) THEN Fail(H, "InvalidPosition")
                     ELSE Ok(storeAtTarget(H, r,
                            Str(SubSeq(runes, 1, pos) \o op.str.s
                                  \o SubSeq(runes, pos + 1, Len(runes)))))

\* a length that prefers len to str
strDelLengthLenFirst(op, text, jsPos) ==
  IF op.len # Absent
    THEN LET lenN == getNumericValue(op.len)
         IN IF ~lenN.ok THEN [err |-> "InvalidParams", n |-> 0]
            ELSE [err |-> "none", n |-> utf16LenToRuneLen(text, jsPos, toInt(lenN.x2))]
  ELSE IF op.str.t = "str" THEN [err |-> "none", n |-> Len(op.str.s)]
  ELSE [err |-> "MissingField", n |-> 0]

\* a length that counts the UTF-16 code units of str
strDelLengthUnits(op, text, jsPos) ==
  IF op.str.t = "str" THEN [err |-> "none", n |-> utf16Length(op.str.s)]
  ELSE IF op.len # Absent
    THEN LET lenN == getNumericValue(op.len)
         IN IF ~lenN.ok THEN [err |-> "InvalidParams", n |-> 0]
            ELSE [err |-> "none", n |-> utf16LenToRuneLen(text, jsPos, toInt(lenN.x2))]
  ELSE [err |-> "MissingField", n |-> 0]

\* the rune length of a str_del: [err, n]
strDelLength(op, text, jsPos) ==
  IF op.str.t = "str" THEN [err |-> "none", n |-> Len(op.str.s)]
  ELSE IF op.len # Absent
    THEN LET lenN == getNumericValue(op.len)
         IN IF ~lenN.ok THEN [err |-> "InvalidParams", n |-> 0]
            ELSE [err |-> "none", n |-> utf16LenToRuneLen(text, jsPos, toInt(lenN.x2))]
  ELSE [err |-> "MissingField", n |-> 0]

opStrDel(H, op, r) ==
  LET posN == getNumericValue(op.pos)
  IN IF op.pos = Absent \/ ~posN.ok THEN Fail(H, "InvalidParams")
     ELSE LET cur == readTarget(H, r)
          IN IF cur.err # "none" THEN Fail(H, cur.err)
             ELSE IF cur.val.t # "str" THEN Fail(H, "TypeMismatch")
             ELSE IF toInt(posN.x2) > utf16Length(cur.val.s) THEN Fail(H, "InvalidRange")
             ELSE LET runes == cur.val.s
                      pos == utf16OffsetToRuneIndex(runes, toInt(posN.x2))
                      length == strDelLength(op, runes, toInt(posN.x2))
                  IN IF length.err # "none" THEN Fail(H, length.err)
                     ELSE IF pos < 0 \/ length.n < 0 \/ pos + length.n > Len(runes)
                       THEN Fail(H, "InvalidRange")
                     ELSE Ok(storeAtTarget(H, r,
                            Str(SubSeq(runes, 1, pos)
                                  \o SubSeq(runes, pos + length.n + 1, Len(runes)))))

opInc(H, op, r) ==
  IF op.inc = Absent THEN Fail(H, "MissingField")
  ELSE IF ~getNumericValue(op.inc).ok THEN Fail(H, "TypeMismatch")
  ELSE LET cur == readTarget(H, r)
       IN IF cur.err # "none" THEN Fail(H, cur.err)
          ELSE IF ~getNumericValue(cur.val).ok THEN Fail(H, "TypeMismatch")
          ELSE Ok(storeAtTarget(H, r,
                 IntV(toInt(toFloat64(getNumericValue(cur.val).x2
                                        + getNumericValue(op.inc).x2)))))

opCopy(H, op, r, g) ==
  IF op.from.t # "str" THEN Fail(H, "MissingField")
  ELSE LET fr == resolvePath(H, op.from.s)
       IN IF fr.err # "none" THEN Fail(H, fr.err)
          ELSE LET v == readTarget(H, fr)
               IN IF v.err # "none" THEN Fail(H, v.err)
                  ELSE insertAtTarget(H, r, v.val, g)

\* the first half of move: take the value out of its container: [H, err, val]
moveTake(H, fr) ==
  CASE fr.parent.t = "map" ->
         IF fr.finalKey \notin DOMAIN H.maps[fr.parent.id]
           THEN [H |-> H, err |-> "PathNotFound", val |-> Null]
           ELSE [H |-> SetMap(H, fr.parent.id, Del(H.maps[fr.parent.id], fr.finalKey)),
                 err |-> "none", val |-> H.maps[fr.parent.id][fr.finalKey]]
    [] fr.parent.t = "list" ->
         IF fr.finalIndex < 0 \/ fr.finalIndex >= fr.parent.len
           THEN [H |-> H, err |-> "IndexOutOfBounds", val |-> Null]
           ELSE LET rem == removeValueFromSlice(H, fr.parent, fr.finalIndex)
                    as == assignSliceToParent(rem.H, fr.cp, fr.cpKey, fr.cpIdx, rem.sl)
                IN [H |-> as.H, err |-> as.err, val |-> rem.val]
    [] OTHER -> [H |-> H, err |-> "NonContainerBeforeFinal", val |-> Null]

movePrefixConflict(pathRaw, fromRaw) ==
  HasPrefix(pathRaw \o <<chSlash>>, fromRaw \o <<chSlash>>)

\* a move that leaves the nesting of path under from to the second resolution
opMoveUnguarded(H, op, g) ==
  IF op.from.t # "str" THEN Fail(H, "MissingField")
  ELSE LET fr == resolvePath(H, op.from.s)
       IN IF fr.err # "none" THEN Fail(H, fr.err)
          ELSE LET tk == moveTake(H, fr)
               IN IF tk.err # "none" THEN Fail(tk.H, tk.err)
                  ELSE LET r2 == resolvePath(tk.H, op.path.s)
                       IN IF r2.err # "none" THEN Fail(tk.H, r2.err)
                          ELSE insertAtTarget(tk.H, r2, tk.val, g)

opMove(H, op, g) ==
  IF op.from.t # "str" THEN Fail(H, "MissingField")
  ELSE IF movePrefixConflict(op.path.s, op.from.s) THEN Fail(H, "MovePrefixConflict")
  ELSE LET fr == resolvePath(H, op.from.s)
       IN IF fr.err # "none" THEN Fail(H, fr.err)
          ELSE LET tk == moveTake(H, fr)
               IN IF tk.err # "none" THEN Fail(tk.H, tk.err)
                  ELSE LET r2 == resolvePath(tk.H, op.path.s)
                       IN IF r2.err # "none" THEN Fail(tk.H, r2.err)
                          ELSE insertAtTarget(tk.H, r2, tk.val, g)

opTest(H, op, r) ==
  IF op.value = Absent THEN Fail(H, "MissingField")
  ELSE LET cur == readTarget(H, r)
       IN IF cur.err # "none" THEN Fail(H, cur.err)
          ELSE IF ~jsonEqual(H, cur.val, op.value) THEN Fail(H, "TestFailed")
          ELSE Ok(H)

\* operations on the root document (pathRaw == "")
\* a root handler that adds the entries of the value to those of the document
applyRootMerge(H, op) ==
  IF op.op.s \in {kReplace, kAdd}
    THEN IF op.value = Absent THEN Fail(H, "MissingField")
         ELSE IF op.value.t # "map" THEN Fail(H, "TypeMismatch")
         ELSE Ok(SetMap(H, Doc.id, H.maps[op.value.id] @@ H.maps[Doc.id]))
  ELSE IF op.op.s = kRemove THEN Ok(SetMap(H, Doc.id, EmptyMap))
  ELSE Fail(H, "UnsupportedRootOperation")

\* a root handler that takes a test on the root for a comparison
applyRootTest(H, op) ==
  IF op.op.s \in {kReplace, kAdd}
    THEN IF op.value = Absent THEN Fail(H, "MissingField")
         ELSE IF op.value.t # "map" THEN Fail(H, "TypeMismatch")
         ELSE LET cleared == SetMap(H, Doc.id, EmptyMap)
              IN Ok(SetMap(cleared, Doc.id, cleared.maps[op.value.id]))
  ELSE IF op.op.s = kRemove THEN Ok(SetMap(H, Doc.id, EmptyMap))
  ELSE IF op.op.s = kTest /\ op.value # Absent
    THEN IF jsonEqual(H, Doc, op.value) THEN Ok(H) ELSE Fail(H, "TestFailed")
  ELSE Fail(H, "UnsupportedRootOperation")

applyRoot(H, op) ==
  IF op.op.s \in {kReplace, kAdd}
    THEN IF op.value = Absent THEN Fail(H, "MissingField")
         ELSE IF op.value.t # "map" THEN Fail(H, "TypeMismatch")
         ELSE LET cleared == SetMap(H, Doc.id, EmptyMap)
              IN Ok(SetMap(cleared, Doc.id, cleared.maps[op.value.id]))
  ELSE IF op.op.s = kRemove THEN Ok(SetMap(H, Doc.id, EmptyMap))
  ELSE Fail(H, "UnsupportedRootOperation")

\* the switch on the operation kind, once the path has resolved to r
dispatch(H, op, r, g) ==
  IF r.err # "none" THEN Fail(H, r.err)
  ELSE CASE op.op.s = kAdd -> opAdd(H, op, r, g)
         [] op.op.s = kRemove -> opRemove(H, op, r)
         [] op.op.s = kReplace -> opReplace(H, op, r)
         [] op.op.s = kStrIns -> opStrIns(H, op, r)
         [] op.op.s = kStrDel -> opStrDel(H, op, r)
         [] op.op.s = kInc -> opInc(H, op, r)
         [] op.op.s = kCopy -> opCopy(H, op, r, g)
         [] op.op.s = kMove -> opMove(H, op, g)
         [] op.op.s = kTest -> opTest(H, op, r)
         [] OTHER -> Fail(H, "UnknownOperationKind")

\* one iteration of Apply's loop
applyOne(H, op, g) ==
  IF op.op.t # "str" \/ op.path.t # "str" THEN Fail(H, "MalformedOperation")
  ELSE IF op.path.s = <<>> THEN applyRoot(H, op)
  ELSE dispatch(H, op, resolvePath(H, op.path.s), g)

\* --------------------------------------------------- documents as JSON trees
\* A tree is a scalar value, TM(key -> tree) or TL(<<tree, ...>>).
TM(m) == [t |-> "M", m |-> m]
TL(e) == [t |-> "L", e |-> e]
Cut == [t |-> "cut"]

\* build a tree on the heap (the caller's literals, or a decoded JSON text);
\* every list gets `spare` unused slots of capacity
RECURSIVE Alloc(_, _, _)
RECURSIVE AllocEntries(_, _, _, _, _)
RECURSIVE AllocElems(_, _, _, _, _)
AllocEntries(H, id, m, keys, spare) ==
  IF keys = {} THEN H
  ELSE LET k == CHOOSE x \in keys : TRUE
           c == Alloc(H, m[k], spare)
       IN AllocEntries(SetMap(c.H, id, Put(c.H.maps[id], k, c.v)), id, m, keys \ {k}, spare)
AllocElems(H, id, e, j, spare) ==
  IF j > Len(e) THEN H
  ELSE LET c == Alloc(H, e[j], spare)
       IN AllocElems([c.H EXCEPT !.arrs[id][j] = c.v], id, e, j + 1, spare)
Alloc(H, tree, spare) ==
  CASE tree.t = "M" ->
         LET id == Len(H.maps) + 1
         IN [H |-> AllocEntries([H EXCEPT !.maps = Append(@, EmptyMap)], id, tree.m,
                                DOMAIN tree.m, spare),
             v |-> MapRef(id)]
    [] tree.t = "L" ->
         LET id == Len(H.arrs) + 1
             blank == [j \in 1..(Len(tree.e) + spare) |-> Null]
         IN [H |-> AllocElems([H EXCEPT !.arrs = Append(@, blank)], id, tree.e, 1, spare),
             v |-> Slice(id, Len(tree.e))]
    [] OTHER -> [H |-> H, v |-> tree]

\* the tree a value denotes, unfolded to depth d
RECURSIVE Deep(_, _, _)
Deep(H, v, d) ==
  CASE v.t = "map" ->
         IF d = 0 THEN Cut
         ELSE TM([k \in DOMAIN H.maps[v.id] |-> Deep(H, H.maps[v.id][k], d - 1)])
    [] v.t = "list" ->
         IF d = 0 THEN Cut
         ELSE TL([j \in 1..v.len |-> Deep(H, H.arrs[v.arr][j], d - 1)])
    [] OTHER -> v

DocTree(H) == Deep(H, Doc, MaxDepth)
EmptyHeap == [maps |-> <<>>, arrs |-> <<>>]

\* ------------------------------------------------------------------ inputs
BaseOp(kind, path) ==
  [op |-> Str(kind), path |-> Str(path), value |-> Absent, from |-> Absent,
   pos |-> Absent, str |-> Absent, len |-> Absent, inc |-> Absent]
WithValue(kind, path, v) == [BaseOp(kind, path) EXCEPT !.value = v]
WithFrom(kind, from, path) == [BaseOp(kind, path) EXCEPT !.from = Str(from)]
StrIns(path, pos, str) == [BaseOp(kStrIns, path) EXCEPT !.pos = pos, !.str = str]
StrDel(path, pos, str, len) == [BaseOp(kStrDel, path) EXCEPT !.pos = pos, !.str = str, !.len = len]
Inc(path, inc) == [BaseOp(kInc, path) EXCEPT !.inc = inc]

RECURSIVE Path(_)
Path(segs) == IF segs = <<>> THEN <<>> ELSE <<chSlash>> \o Head(segs) \o Path(Tail(segs))

ka == <<97>>
kb == <<98>>
kc == <<99>>
kd == <<100>>
kl == <<108>>
km == <<109>>
ks == <<115>>
kt == <<116>>
kz == <<122>>
t0 == <<48>>
t1 == <<49>>
t2 == <<50>>
t3 == <<51>>
t4 == <<52>>
tDash == <<chDash>>
Globe == 127757
kUnknown == <<110, 111, 112>>

Scenarios == {"maps", "mapmove", "test", "lists", "listmove", "ins", "del", "insdel", "inc", "undo", "root", "refuse", "resolve", "final", "escape", "alias", "value", "equal"}

One == IntV(1)
Nine == IntV(9)
sx == <<120>>
sz == <<122>>
neg1 == <<chDash, chOne>>

MapDoc == TM((ka :> TM(kb :> One)) @@ (ks :> Str(sx)) @@ (kc :> IntV(2)))
ListDoc ==
  TM((kl :> TL(<<One, IntV(2), IntV(3)>>)) @@ (km :> TL(<<TL(<<IntV(7)>>)>>)) @@ (kc :> IntV(5)))
TestDoc ==
  TM((ka :> TM(kb :> One)) @@ (kl :> TL(<<One, IntV(2)>>)) @@ (ks :> Str(sx))
       @@ (kz :> Null) @@ (kt :> Bool(TRUE)))
\* "Hello <U+1F30D> world" and "big "
Hello == <<72, 101, 108, 108, 111, 32, Globe, 32, 119, 111, 114, 108, 100>>
Big == <<98, 105, 103, 32>>
kh == <<104>>
TextDoc ==
  TM((kt :> Str(<<97, Globe, 98>>)) @@ (kl :> TL(<<Str(<<Globe, 120>>)>>)) @@ (kc :> IntV(5))
       @@ (kh :> Str(Hello)))
DelDoc == TM((kt :> Str(<<97, Globe, 98>>)) @@ (kc :> IntV(5)))
\* the least float64 beyond the range of int (2^63 for Go's int), and its
\* double on either side
Beyond == FloatV(2 * (MaxInt + 1))
FarBeyond == FloatV(4 * (MaxInt + 1))
NegBeyond == FloatV(0 - 4 * (MaxInt + 1))
kb2 == <<98, 98>>
kj == <<106>>
kk == <<107>>
kn == <<110>>
kq == <<113>>
\* {"c": 10.5, "n": 5, "j": int32(3), "k": int64(30), "bb": 2^63, "s": "x", "l": [1, 30.5]}
IncDoc ==
  TM((kc :> FloatV(21)) @@ (kn :> IntV(5)) @@ (kj :> Num("int32", 6)) @@ (kk :> Num("int64", 60))
       @@ (kb2 :> Beyond) @@ (ks :> Str(sx)) @@ (kl :> TL(<<One, FloatV(61)>>)))
InsDelDoc == TM((kt :> Str(<<97, Globe, 98>>)) @@ (kl :> TL(<<Str(<<Globe, 120>>)>>)))

\* {"a": {"b": 1}, "l": [1, "x"], "s": "x", "z": null, "t": true, "c": 5}
RefuseDoc ==
  TM((ka :> TM(kb :> One)) @@ (kl :> TL(<<One, Str(sx)>>)) @@ (ks :> Str(sx))
       @@ (kz :> Null) @@ (kt :> Bool(TRUE)) @@ (kc :> IntV(5)))

kx == <<120>>
ky == <<121>>
tMinusOne == <<chDash, chOne>>
\* {"a": {"b": 1}, "l": [1, {"x": 2}], "s": "x", "z": null}
ResolveDoc ==
  TM((ka :> TM(kb :> One)) @@ (kl :> TL(<<One, TM(kx :> IntV(2))>>)) @@ (ks :> Str(sx))
       @@ (kz :> Null))

tPlusOne == <<chPlus, chOne>>
\* {"a": {"b": 1}, "l": [1, [7]], "s": "x"}
FinalDoc ==
  TM((ka :> TM(kb :> One)) @@ (kl :> TL(<<One, TL(<<IntV(7)>>)>>)) @@ (ks :> Str(sx)))

\* {"a/b": 1, "m~n": 2, "~1": 3, "a": {"/": 4}}
kSlash == <<chSlash>>
kTilde1 == <<chTilde, chOne>>
kab == <<97, chSlash, 98>>
kmn == <<109, chTilde, 110>>
EscapeDoc ==
  TM((kab :> One) @@ (kmn :> IntV(2)) @@ (kTilde1 :> IntV(3)) @@ (ka :> TM(kSlash :> IntV(4))))

kk2 == <<107, 107>>
\* {"a": {"b": 1, "t": "x"}, "l": [1, [7]]}
AliasDoc ==
  TM((ka :> TM((kb :> One) @@ (kt :> Str(sx)))) @@ (kl :> TL(<<One, TL(<<IntV(7)>>)>>)))

\* {"a": {"b": 1}, "l": [1]}
ValueDoc == TM((ka :> TM(kb :> One)) @@ (kl :> TL(<<One>>)))

\* a number of a Go type the comparator has no case for (uint)
UintV(n) == Num("uint", 2 * n)
ku == <<117>>
\* {"u": uint(1), "s": "1", "n": 1, "a": {"b": uint(1)}, "l": [uint(1)]}
EqualDoc ==
  TM((ku :> UintV(1)) @@ (ks :> Str(<<chOne>>)) @@ (kn :> One) @@ (ka :> TM(kb :> UintV(1)))
       @@ (kl :> TL(<<UintV(1)>>)))

InitDoc(s) ==
  CASE s \in {"maps", "mapmove", "undo", "root"} -> MapDoc
    [] s \in {"lists", "listmove"} -> ListDoc
    [] s = "test" -> TestDoc
    [] s = "refuse" -> RefuseDoc
    [] s = "resolve" -> ResolveDoc
    [] s = "final" -> FinalDoc
    [] s = "escape" -> EscapeDoc
    [] s = "alias" -> AliasDoc
    [] s = "value" -> ValueDoc
    [] s = "equal" -> EqualDoc
    [] s = "ins" -> TextDoc
    [] s = "del" -> DelDoc
    [] s = "insdel" -> InsDelDoc
    [] s = "inc" -> IncDoc

\* one operation of every kind the families below do not exercise
CommonOps ==
  {Inc(Path(<<kc>>), One),
   BaseOp(kUnknown, Path(<<kc>>)),
   [BaseOp(kAdd, Path(<<kc>>)) EXCEPT !.path = Absent],
   [WithValue(kAdd, Path(<<kc>>), One) EXCEPT !.op = One],
   BaseOp(kRemove, <<>>),
   WithValue(kReplace, <<>>, TM(kz :> One)),
   WithValue(kAdd, <<>>, One),
   WithValue(kTest, <<>>, One),
   StrIns(Path(<<ks>>), IntV(0), Str(sz)),
   StrDel(Path(<<ks>>), IntV(0), Absent, One),
   WithValue(kTest, Path(<<kc>>), IntV(2)),
   WithFrom(kMove, Path(<<kc>>), Path(<<kd>>))}

MapOps ==
  {WithValue(kAdd, p, Nine) :
     p \in {Path(<<ka, kb>>), Path(<<ka, kc>>), Path(<<kd>>), Path(<<ks, kz>>),
            Path(<<kz, kb>>), Path(<<ks, kz, kb>>), Path(<<ka, <<chTilde, 50>>>>),
            <<97, chSlash, 99>>, Path(<<ka, kc, kc>>)}}
  \cup {WithValue(kAdd, Path(<<ka, kc>>), TM(kb :> One)), BaseOp(kAdd, Path(<<ka, kc>>))}
  \cup {BaseOp(kRemove, p) :
          p \in {Path(<<ka>>), Path(<<ka, kb>>), Path(<<ka, kc>>), Path(<<kc>>),
                 Path(<<kz, kb>>), Path(<<ka, kc, kc>>)}}
  \cup {WithValue(kReplace, p, Nine) :
          p \in {Path(<<ka, kb>>), Path(<<ka, kc>>), Path(<<kc>>), Path(<<kd>>), Path(<<ka>>),
                 Path(<<ka, kc, kc>>)}}
  \cup {BaseOp(kReplace, Path(<<kc>>)), WithFrom(kCopy, Path(<<ka>>), Path(<<ka, kc>>))}

MapMoveOps ==
  {WithFrom(kCopy, f[1], f[2]) :
     f \in {<<Path(<<ka>>), Path(<<kd>>)>>, <<Path(<<ka, kb>>), Path(<<kc>>)>>,
            <<Path(<<ka, kb>>), Path(<<ka, kc>>)>>, <<Path(<<kz>>), Path(<<kd>>)>>,
            <<Path(<<ka>>), Path(<<ka, kc>>)>>, <<Path(<<ka, kz>>), Path(<<kd>>)>>,
            <<Path(<<kc>>), Path(<<ks, kz>>)>>, <<Path(<<ks, kz>>), Path(<<kd>>)>>,
            <<Path(<<ka>>), Path(<<ka>>)>>}}
  \cup {BaseOp(kCopy, Path(<<kd>>)), BaseOp(kMove, Path(<<kd>>))}
  \cup {WithFrom(kMove, f[1], f[2]) :
          f \in {<<Path(<<ka, kb>>), Path(<<kd>>)>>, <<Path(<<ka>>), Path(<<ka, kb>>)>>,
                 <<Path(<<ka>>), Path(<<ka>>)>>, <<Path(<<kc>>), Path(<<kc, kz>>)>>,
                 <<Path(<<ka>>), Path(<<ka, kc, kz>>)>>,
                 <<Path(<<ka, kb>>), Path(<<ka, kc>>)>>, <<Path(<<kz>>), Path(<<kd>>)>>,
                 <<Path(<<ka, kb>>), Path(<<kz, kb>>)>>, <<Path(<<ka>>), Path(<<kc>>)>>,
                 <<ka, Path(<<ka, kb>>)>>, <<Path(<<kc>>), Path(<<ka, kb>>)>>,
                 <<Path(<<kd>>), Path(<<kd, kb>>)>>}}
  \cup {WithValue(kAdd, Path(<<ka, kb>>), Nine), BaseOp(kRemove, Path(<<ka, kb>>))}

TestOps ==
  {WithValue(kTest, Path(<<ka, kb>>), v) :
     v \in {One, FloatV(2), IntV(2), FloatV(3), Str(<<chOne>>), Null, Bool(TRUE),
            Num("int64", 2), Num("int32", 2)}}
  \cup {WithValue(kTest, Path(<<ka>>), v) :
          v \in {TM(kb :> One), TM(kb :> FloatV(2)), TM((kb :> One) @@ (kc :> IntV(2))),
                 TM(kc :> One), TM(kb :> IntV(2)), TL(<<One>>), One, TM(EmptyMap)}}
  \cup {WithValue(kTest, Path(<<kl>>), v) :
          v \in {TL(<<One, IntV(2)>>), TL(<<One>>), TL(<<One, FloatV(4)>>),
                 TL(<<One, IntV(3)>>), TL(<<IntV(2), One>>), TL(<<One, IntV(2), IntV(3)>>),
                 TM(EmptyMap), Null}}
  \cup {WithValue(kTest, f[1], f[2]) :
          f \in {<<Path(<<ks>>), Str(sx)>>, <<Path(<<ks>>), Str(sz)>>, <<Path(<<ks>>), One>>,
                 <<Path(<<kz>>), Null>>, <<Path(<<kz>>), Bool(FALSE)>>, <<Path(<<kz>>), IntV(0)>>,
                 <<Path(<<kt>>), Bool(TRUE)>>, <<Path(<<kt>>), Bool(FALSE)>>,
                 <<Path(<<kt>>), One>>, <<Path(<<kd>>), One>>, <<Path(<<kd>>), Null>>,
                 <<Path(<<ka, kz>>), Null>>, <<Path(<<kl, t1>>), IntV(2)>>,
                 <<Path(<<kl, t2>>), One>>, <<Path(<<kl, tDash>>), Null>>,
                 <<Path(<<ks, kz>>), One>>, <<Path(<<ka, kc, kb>>), One>>}}
  \cup {BaseOp(kTest, Path(<<ka, kb>>)),
        WithFrom(kCopy, Path(<<ka>>), Path(<<ka, kc>>)),
        WithValue(kTest, Path(<<ka, kc>>), TM(kb :> One)),
        WithValue(kReplace, Path(<<kl, t1>>), FloatV(4))}

ListOps ==
  {WithValue(kAdd, p, Nine) :
     p \in {Path(<<kl, t0>>), Path(<<kl, t1>>), Path(<<kl, t3>>), Path(<<kl, tDash>>),
            Path(<<kl, t4>>), Path(<<kl, neg1>>), Path(<<kl, sx>>),
            Path(<<km, t0, t0>>), Path(<<km, t0, tDash>>), Path(<<km, t0, t2>>),
            Path(<<km, t1, t0>>), Path(<<km, tDash, t0>>), Path(<<kl, t0, t0>>)}}
  \cup {WithValue(kAdd, Path(<<kl, t1>>), TL(<<IntV(8)>>)), BaseOp(kAdd, Path(<<kl, t0>>))}
  \cup {BaseOp(kRemove, p) :
          p \in {Path(<<kl, t0>>), Path(<<kl, t1>>), Path(<<kl, t2>>), Path(<<kl, t3>>),
                 Path(<<kl, tDash>>), Path(<<kl, neg1>>),
                 Path(<<km, t0, t0>>), Path(<<km, t0>>), Path(<<kl, t0, t0>>)}}
  \cup {WithValue(kReplace, p, Nine) :
          p \in {Path(<<kl, t0>>), Path(<<kl, t2>>), Path(<<kl, t3>>), Path(<<kl, tDash>>),
                 Path(<<km, t0, t0>>), Path(<<km, t0>>), Path(<<kl, sx>>),
                 Path(<<kl, t0, t0>>)}}
  \cup {WithFrom(kCopy, Path(<<kl>>), Path(<<kl, t0>>)), WithFrom(kCopy, Path(<<kl>>), Path(<<kd>>))}

ListMoveOps ==
  {WithFrom(kCopy, f[1], f[2]) :
     f \in {<<Path(<<kl, t0>>), Path(<<kl, t2>>)>>, <<Path(<<kl, t2>>), Path(<<kl, t0>>)>>,
            <<Path(<<kl, t0>>), Path(<<kl, tDash>>)>>, <<Path(<<kl, t3>>), Path(<<kl, t0>>)>>,
            <<Path(<<kl, tDash>>), Path(<<kl, t0>>)>>, <<Path(<<kl>>), Path(<<kl, t0>>)>>,
            <<Path(<<kl>>), Path(<<kd>>)>>, <<Path(<<km, t0>>), Path(<<kl, t1>>)>>,
            <<Path(<<kc>>), Path(<<kl, t4>>)>>, <<Path(<<kl, t1>>), Path(<<km, t0, t0>>)>>}}
  \cup {WithFrom(kMove, f[1], f[2]) :
          f \in {<<Path(<<kl, t0>>), Path(<<kl, t2>>)>>, <<Path(<<kl, t2>>), Path(<<kl, t0>>)>>,
                 <<Path(<<kl, t0>>), Path(<<kl, t3>>)>>, <<Path(<<kl, t0>>), Path(<<kl, tDash>>)>>,
                 <<Path(<<kl, t1>>), Path(<<km, t0, t0>>)>>, <<Path(<<kc>>), Path(<<kl, t1>>)>>,
                 <<Path(<<kl, t0>>), Path(<<kd>>)>>, <<Path(<<kl>>), Path(<<kl, t0>>)>>,
                 <<Path(<<kl, t1>>), Path(<<kl, t1>>)>>, <<Path(<<km, t0>>), Path(<<kl, t0>>)>>,
                 <<Path(<<kl, t3>>), Path(<<kl, t0>>)>>, <<Path(<<km, t0, t0>>), Path(<<km, t0>>)>>,
                 <<Path(<<kl, t0>>), Path(<<kl, t1>>)>>,
                 <<Path(<<kl, t0, t1>>), Path(<<kl, t0, t0>>)>>}}
  \cup {BaseOp(kRemove, Path(<<kl, t2>>))}

TextPos == {IntV(-1), IntV(0), One, IntV(2), IntV(3), IntV(4), IntV(5), FloatV(3)}
InsOps ==
  {StrIns(Path(<<kt>>), p, Str(x)) : p \in TextPos, x \in {sz, <<Globe>>}}
  \cup {StrIns(Path(<<kl, t0>>), p, Str(sz)) : p \in {IntV(0), IntV(2), IntV(3), IntV(4)}}
  \cup {StrIns(Path(<<kt>>), One, Str(<<>>)),
        StrIns(Path(<<kc>>), IntV(0), Str(sz)), StrIns(Path(<<kz>>), IntV(0), Str(sz)),
        StrIns(Path(<<kl, t4>>), IntV(0), Str(sz)), StrIns(Path(<<kt>>), Absent, Str(sz)),
        StrIns(Path(<<kt>>), Str(sz), Str(sz)), StrIns(Path(<<kt>>), IntV(0), One),
        StrIns(Path(<<kt>>), IntV(0), Absent),
        StrDel(Path(<<kl, t0>>), One, Absent, IntV(2)),
        StrDel(Path(<<kl, t0>>), IntV(2), Str(sz), Absent),
        StrDel(Path(<<kl, t4>>), IntV(0), Absent, Absent),
        WithFrom(kCopy, Path(<<kl>>), Path(<<kl, tDash>>)),
        StrIns(Path(<<kl, t1, t0>>), IntV(2), Str(sz)),
        StrIns(Path(<<kh>>), Nine, Str(Big))}

DelOps ==
  {StrDel(Path(<<kt>>), p, Str(x), Absent) :
     p \in TextPos \ {FloatV(3)}, x \in {<<>>, sz, <<122, 122>>}}
  \cup {StrDel(Path(<<kt>>), p, Absent, x) :
          p \in TextPos \ {FloatV(3)}, x \in {IntV(-1), One, IntV(2), IntV(3)}}
  \cup {StrDel(Path(<<kt>>), p, Str(sz), x) : p \in {IntV(0), One}, x \in {IntV(0), IntV(2)}}
  \cup {StrDel(Path(<<kt>>), p, Absent, Absent) : p \in {IntV(0), IntV(5), Absent}}
  \cup {StrDel(Path(<<kt>>), One, One, One), StrDel(Path(<<kt>>), One, Absent, Str(sz)),
        StrDel(Path(<<kt>>), One, One, Absent), StrDel(Path(<<kt>>), One, Str(<<Globe>>), Absent),
        StrDel(Path(<<kt>>), FloatV(3), Absent, FloatV(3)),
        StrDel(Path(<<kt>>), One, Absent, IntV(0)),
        StrDel(Path(<<kc>>), IntV(0), Str(sz), Absent), StrDel(Path(<<kz>>), IntV(0), Absent, One),
        StrDel(Path(<<kc>>), IntV(0), Absent, Absent),
        StrIns(Path(<<kt>>), IntV(4), Str(sz))}

\* insertions, and the deletions that name the same position and text
InsDelPos == {IntV(-1), IntV(0), One, IntV(2), IntV(3), IntV(4), IntV(5)}
InsDelOps ==
  {StrIns(Path(<<kt>>), p, Str(x)) : p \in InsDelPos, x \in {sz, <<Globe>>}}
  \cup {StrDel(Path(<<kt>>), p, Str(x), Absent) : p \in InsDelPos, x \in {sz, <<Globe>>}}
  \cup {StrIns(Path(<<kl, t0>>), p, Str(<<Globe, 122>>)) : p \in {IntV(0), One, IntV(2), IntV(3)}}
  \cup {StrDel(Path(<<kl, t0>>), p, Str(<<Globe, 122>>), Absent) :
          p \in {IntV(0), One, IntV(2), IntV(3)}}
  \cup {StrIns(Path(<<kt>>), One, Str(<<>>)), StrDel(Path(<<kt>>), One, Str(<<>>), Absent),
        StrDel(Path(<<kt>>), IntV(0), Str(sz), IntV(3))}

\* increments of every numeric type, each with its opposite, and the
\* increments that must be refused
IncOps ==
  {Inc(Path(<<kc>>), d) :
     d \in {FloatV(2), FloatV(-2), FloatV(1), FloatV(-1), IntV(11), IntV(-11), Num("int64", 2)}}
  \cup {Inc(Path(<<kn>>), d) : d \in {One, IntV(-1), FloatV(1), FloatV(-1)}}
  \cup {Inc(Path(<<kl, t1>>), d) : d \in {FloatV(19), FloatV(-19)}}
  \cup {Inc(Path(<<kj>>), Num("int32", 4)), Inc(Path(<<kk>>), Num("int64", 10)),
        Inc(Path(<<kb2>>), One), Inc(Path(<<kn>>), Beyond), Inc(Path(<<kc>>), NegBeyond),
        Inc(Path(<<kc>>), FarBeyond)}
  \cup {Inc(Path(<<ks>>), One), Inc(Path(<<kl>>), One), Inc(Path(<<kq>>), One),
        Inc(Path(<<kl, t2>>), One), Inc(Path(<<kl, tDash>>), One),
        Inc(Path(<<kc>>), Absent), Inc(Path(<<kc>>), Str(<<chOne>>)), Inc(Path(<<kc>>), Bool(TRUE)),
        Inc(Path(<<kc>>), Null), Inc(Path(<<kq>>), Absent), Inc(Path(<<ks>>), Str(sx))}

\* adds at Map keys, present and absent, and the replaces and removes that
\* may follow them
UndoOps ==
  {WithValue(kAdd, p, Nine) :
     p \in {Path(<<ka, kb>>), Path(<<ka>>), Path(<<kc>>), Path(<<kd>>), Path(<<ka, kz>>)}}
  \cup {WithValue(kAdd, Path(<<ka>>), TM(kz :> One)), WithValue(kAdd, Path(<<ka, kb>>), One)}
  \cup {WithValue(kReplace, f[1], f[2]) :
          f \in {<<Path(<<ka, kb>>), One>>, <<Path(<<ka>>), TM(kb :> One)>>,
                 <<Path(<<kc>>), IntV(2)>>, <<Path(<<ka, kb>>), IntV(2)>>,
                 <<Path(<<kd>>), Nine>>, <<Path(<<ka>>), TM(kb :> FloatV(2))>>}}
  \cup {BaseOp(kRemove, p) :
          p \in {Path(<<ka, kb>>), Path(<<ka>>), Path(<<kc>>), Path(<<kd>>), Path(<<ka, kz>>)}}

\* operations of every kind on the root path, with one on a key
RootOps ==
  {WithValue(k, <<>>, v) :
     k \in {kReplace, kAdd},
     v \in {TM(kz :> One), TM((ka :> TM(kc :> One)) @@ (kd :> Null)), TM(EmptyMap), One,
            Str(sx), TL(<<One>>), Null, Absent}}
  \cup {BaseOp(k, <<>>) : k \in {kRemove, kCopy, kUnknown}}
  \cup {Inc(<<>>, One), StrIns(<<>>, IntV(0), Str(sx)), StrDel(<<>>, IntV(0), Absent, One),
        WithFrom(kMove, Path(<<ka>>), <<>>), WithFrom(kCopy, Path(<<ka>>), <<>>),
        WithValue(kTest, <<>>, TM(EmptyMap)), WithValue(kAdd, Path(<<kd>>), Nine)}

\* the string operations and inc on targets of every kind, present and
\* absent, with operands of every kind
RefusePaths ==
  {Path(<<ka>>), Path(<<kl>>), Path(<<ks>>), Path(<<kz>>), Path(<<kt>>), Path(<<kc>>),
   Path(<<kq>>), Path(<<kl, t0>>), Path(<<kl, t1>>), Path(<<kl, t2>>), Path(<<kl, tDash>>),
   Path(<<ka, kb>>), Path(<<ka, kq>>)}
RefuseOps ==
  {StrIns(p, IntV(0), Str(sz)) : p \in RefusePaths}
  \cup {StrDel(p, IntV(0), Absent, One) : p \in RefusePaths}
  \cup {Inc(p, d) : p \in RefusePaths, d \in {One, Absent, Str(<<chOne>>)}}
  \cup {Inc(Path(<<kc>>), Null), Inc(Path(<<kc>>), Bool(TRUE)), Inc(Path(<<kc>>), TL(<<One>>)),
        StrIns(Path(<<kc>>), Absent, Str(sz)), StrIns(Path(<<kq>>), IntV(0), One),
        StrDel(Path(<<kc>>), Str(sz), Absent, One), StrDel(Path(<<kq>>), Absent, Absent, One)}

\* pointers that go astray before their last token, under operations of
\* every kind, and a few operations that change what the pointers meet
AstrayPaths ==
  {Path(<<kq, kx>>), Path(<<ka, kq, kx>>), Path(<<ka, kb, kc, kd>>), Path(<<ks, kx, ky>>),
   Path(<<kz, kx, ky>>), Path(<<kl, t4, kx>>), Path(<<kl, tDash, kx>>), Path(<<kl, kx, ky>>),
   Path(<<kl, tMinusOne, kx>>), Path(<<kl, t0, kx, ky>>), Path(<<kl, t2, kx>>)}
ResolveOps ==
  {WithValue(k, p, Nine) : k \in {kAdd, kReplace, kTest}, p \in AstrayPaths}
  \cup {BaseOp(k, p) : k \in {kRemove, kUnknown}, p \in AstrayPaths}
  \cup {Inc(p, One) : p \in AstrayPaths}
  \cup {StrIns(p, IntV(0), Str(sz)) : p \in AstrayPaths}
  \cup {StrDel(p, IntV(0), Absent, One) : p \in AstrayPaths}
  \cup {WithFrom(k, Path(<<ks>>), p) : k \in {kCopy, kMove}, p \in AstrayPaths}
  \cup {WithFrom(k, p, Path(<<kd>>)) : k \in {kCopy, kMove}, p \in AstrayPaths}
  \cup {WithFrom(kMove, Path(<<kl, t0>>), Path(<<kl, t1, ky>>)),
        WithFrom(kMove, Path(<<ka>>), Path(<<kl, t1, ka>>)),
        WithFrom(kCopy, Path(<<ka>>), Path(<<kl, tDash>>)),
        BaseOp(kRemove, Path(<<kl, t0>>)), BaseOp(kRemove, Path(<<ka, kb>>)),
        WithValue(kAdd, Path(<<kl, t1, ky>>), Nine), WithValue(kReplace, Path(<<kz>>), TM(EmptyMap))}

\* last tokens of every sort under a Map, a List and a String
FinalTokens == {kb, t0, t4, tDash, tMinusOne, tPlusOne, sx}
FinalPaths ==
  {Path(<<ka, tok>>) : tok \in FinalTokens} \cup {Path(<<kl, tok>>) : tok \in FinalTokens}
  \cup {Path(<<ks, tok>>) : tok \in {t0, tDash, kq}}
  \cup {Path(<<kl, t1, tok>>) : tok \in {t0, tDash, t4, kq}} \cup {Path(<<tDash>>), Path(<<t0>>)}
FinalOps ==
  {WithValue(kAdd, p, Nine) : p \in FinalPaths}
  \cup {BaseOp(kRemove, Path(<<g, tok>>)) : g \in {ka, kl}, tok \in {kb, t0, tDash, t4}}
  \cup {WithValue(kReplace, Path(<<g, tok>>), Nine) : g \in {ka, kl, ks}, tok \in {t0, tDash}}

\* segments with escapes, well-formed and not, as they stand in a pointer
EscapeSegs ==
  {<<97, chTilde, chOne, 98>>, <<109, chTilde, chZero, 110>>, <<chTilde, chZero, chOne>>,
   <<chTilde, chOne>>, <<chTilde, chZero>>, <<chTilde, chOne, chZero>>, <<97, chTilde>>,
   <<97, chTilde, 50, 98>>, <<chTilde>>, <<chTilde, chTilde>>, <<chTilde, chZero, chTilde>>,
   <<chZero, chOne>>, <<>>}
EscapePaths ==
  {Path(<<g>>) : g \in EscapeSegs} \cup {Path(<<ka, g>>) : g \in EscapeSegs}
  \cup {Path(<<<<chTilde, 50>>, ka>>), Path(<<<<97, chTilde, chOne, 98>>, ka>>)}
EscapeOps ==
  {WithValue(kReplace, p, Nine) : p \in EscapePaths}
  \cup {BaseOp(kRemove, Path(<<g>>)) : g \in EscapeSegs}
  \cup {WithValue(kAdd, Path(<<ka, <<chTilde, chZero>>>>), Nine)}

\* copies of a Map and of a List to another key, and the edits beneath
\* the one place and the other that may follow them
AliasOps ==
  {WithFrom(kCopy, Path(<<ka>>), Path(<<kc>>)), WithFrom(kCopy, Path(<<kl>>), Path(<<kk2>>)),
   WithFrom(kCopy, Path(<<kl, t1>>), Path(<<km>>)), WithFrom(kCopy, Path(<<ka, kb>>), Path(<<kd>>))}
  \cup {WithValue(k, Path(<<g, kb>>), Nine) : k \in {kAdd, kReplace}, g \in {ka, kc}}
  \cup {WithValue(k, Path(<<g, t0>>), Nine) : k \in {kAdd, kReplace}, g \in {kl, kk2, km}}
  \cup {BaseOp(kRemove, Path(<<g, kb>>)) : g \in {ka, kc}}
  \cup {BaseOp(kRemove, Path(<<g, t0>>)) : g \in {kl, kk2, km}}
  \cup {Inc(Path(<<g, kb>>), One) : g \in {ka, kc}}
  \cup {StrIns(Path(<<g, kt>>), IntV(0), Str(sz)) : g \in {ka, kc}}
  \cup {StrDel(Path(<<g, kt>>), IntV(0), Absent, One) : g \in {ka, kc}}
  \cup {WithValue(kAdd, Path(<<g, t1, tDash>>), Nine) : g \in {kl, kk2}}

\* adds and replaces that bring a Map or a List, and the edits beneath the
\* places where they put it
ValueOps ==
  {WithValue(kAdd, Path(<<kd>>), TM((kx :> One) @@ (kt :> Str(sx)))),
   WithValue(kReplace, Path(<<ka>>), TM(kx :> One)),
   WithValue(kAdd, Path(<<kl, t0>>), TL(<<IntV(7)>>)),
   WithValue(kAdd, Path(<<kd>>), TL(<<IntV(7), IntV(8)>>)),
   WithValue(kReplace, <<>>, TM((km :> TM(kx :> One)) @@ (kx :> One)))}
  \cup {WithValue(kReplace, p, Nine) :
          p \in {Path(<<kd, kx>>), Path(<<ka, kx>>), Path(<<kl, t0, t0>>), Path(<<kd, t0>>),
                 Path(<<km, kx>>)}}
  \cup {WithValue(kAdd, p, Nine) :
          p \in {Path(<<kd, ky>>), Path(<<kl, t0, t0>>), Path(<<kd, t0>>)}}
  \cup {BaseOp(kRemove, p) :
          p \in {Path(<<kd, kx>>), Path(<<kd, t0>>), Path(<<km, kx>>)}}
  \cup {Inc(Path(<<kd, kx>>), One)}

\* tests that bring or meet a value of a type the comparator does not know
EqualOps ==
  {WithValue(kTest, Path(<<ku>>), v) :
     v \in {UintV(1), UintV(2), Str(<<chOne>>), One, FloatV(2), Null, Bool(TRUE), TL(<<One>>)}}
  \cup {WithValue(kTest, Path(<<ks>>), v) : v \in {UintV(1), UintV(2), Str(<<chOne>>), One}}
  \cup {WithValue(kTest, Path(<<kn>>), v) : v \in {UintV(1), UintV(2), One, FloatV(2)}}
  \cup {WithValue(kTest, Path(<<ka>>), v) :
          v \in {TM(kb :> UintV(1)), TM(kb :> One), TM(kb :> Str(<<chOne>>)), UintV(1)}}
  \cup {WithValue(kTest, Path(<<kl>>), v) :
          v \in {TL(<<UintV(1)>>), TL(<<One>>), TL(<<Str(<<chOne>>)>>)}}

Ops(s) ==
  CASE s = "maps" -> MapOps \cup CommonOps
    [] s = "mapmove" -> MapMoveOps
    [] s = "test" -> TestOps
    [] s = "lists" -> ListOps
    [] s = "listmove" -> ListMoveOps
    [] s = "ins" -> InsOps
    [] s = "del" -> DelOps
    [] s = "insdel" -> InsDelOps
    [] s = "inc" -> IncOps
    [] s = "undo" -> UndoOps
    [] s = "root" -> RootOps
    [] s = "refuse" -> RefuseOps
    [] s = "resolve" -> ResolveOps
    [] s = "final" -> FinalOps
    [] s = "escape" -> EscapeOps
    [] s = "alias" -> AliasOps
    [] s = "value" -> ValueOps
    [] s = "equal" -> EqualOps

\* ------------------------------------------------------------------- state
VARIABLES
  heap,   \* the Go heap: the document (map 1) and everything reachable
  sc,     \* which family of inputs this call draws from
  n,      \* len(operations)
  i,      \* operations consumed by the loop so far
  pc,     \* "running" inside Apply's loop, "returned" after it
  err,    \* the error of the last operation; Apply's result once returned
  pre,    \* the heap as it was when the last operation started
  last    \* the last operation taken from the batch

vars == <<heap, sc, n, i, pc, err, pre, last, build>>

\* the builds differ on numbers beyond the range of int only, which the
\* inc family alone holds
BuildsOf(s) == IF s = "inc" THEN Builds ELSE {"amd64"}

NoOp == [BaseOp(<<>>, <<>>) EXCEPT !.op = Absent]

Init ==
  /\ sc \in Scenarios
  /\ \E spare \in {0, MaxSlack} : heap = Alloc(EmptyHeap, InitDoc(sc), spare).H
  /\ n \in 0..MaxOps
  /\ i = 0
  /\ pc = "running"
  /\ err = "none"
  /\ pre = heap
  /\ last = NoOp
  /\ build \in BuildsOf(sc)

\* the loop has an operation left to take
Running == pc = "running" /\ i < n

\* a loop that logs the error of an operation and goes on with the next one
FinishAndGoOn(H0, op, res) ==
  /\ heap' = res.H
  /\ pre' = H0
  /\ last' = op
  /\ err' = res.err
  /\ pc' = "running"
  /\ i' = i + 1
  /\ UNCHANGED <<sc, n, build>>

\* the loop's bookkeeping around one operation: al is the operation's value
\* as the caller built it on the heap, res the outcome of the iteration
Finish(H0, op, res) ==
  /\ heap' = res.H
  /\ pre' = H0
  /\ last' = op
  /\ err' = res.err
  /\ pc' = IF res.err = "none" THEN "running" ELSE "returned"
  /\ i' = i + 1
  /\ UNCHANGED <<sc, n, build>>

Iterate(al, o, g) == Finish(al.H, [o EXCEPT !.value = al.v], applyOne(al.H, [o EXCEPT !.value = al.v], g))

\* one iteration of the loop over `operations`, for the operation o
Step(o) == \E g \in {0, MaxSlack} : Iterate(Alloc(heap, o.value, 0), o, g)

WellFormed(o) == o.op.t = "str" /\ o.path.t = "str"

\* the operations of each family, by the branch of Apply that takes them
Classes ==
  {"malformed", "root", "unknown", "add", "remove", "replace", "str_ins", "str_del", "inc",
   "copy", "move", "test"}
ClassOf(o) ==
  IF ~WellFormed(o) THEN "malformed"
  ELSE IF o.path.s = <<>> THEN "root"
  ELSE CASE o.op.s = kAdd -> "add" [] o.op.s = kRemove -> "remove"
         [] o.op.s = kReplace -> "replace" [] o.op.s = kStrIns -> "str_ins"
         [] o.op.s = kStrDel -> "str_del" [] o.op.s = kInc -> "inc"
         [] o.op.s = kCopy -> "copy" [] o.op.s = kMove -> "move"
         [] o.op.s = kTest -> "test" [] OTHER -> "unknown"
OpTable == [s \in Scenarios |-> [c \in Classes |-> {o \in Ops(s) : ClassOf(o) = c}]]

ApplyMalformed == Running /\ \E o \in OpTable[sc]["malformed"] : Step(o)
ApplyRoot == Running /\ \E o \in OpTable[sc]["root"] : Step(o)
ApplyAdd == Running /\ \E o \in OpTable[sc]["add"] : Step(o)
ApplyRemove == Running /\ \E o \in OpTable[sc]["remove"] : Step(o)
ApplyReplace == Running /\ \E o \in OpTable[sc]["replace"] : Step(o)
ApplyStrIns == Running /\ \E o \in OpTable[sc]["str_ins"] : Step(o)
ApplyStrDel == Running /\ \E o \in OpTable[sc]["str_del"] : Step(o)
ApplyInc == Running /\ \E o \in OpTable[sc]["inc"] : Step(o)
ApplyCopy == Running /\ \E o \in OpTable[sc]["copy"] : Step(o)
ApplyMove == Running /\ \E o \in OpTable[sc]["move"] : Step(o)
ApplyTest == Running /\ \E o \in OpTable[sc]["test"] : Step(o)
ApplyUnknown == Running /\ \E o \in OpTable[sc]["unknown"] : Step(o)

\* the loop ran out of operations: return nil
Return ==
  /\ pc = "running"
  /\ i = n
  /\ pc' = "returned"
  /\ UNCHANGED <<heap, sc, n, i, err, pre, last, build>>

Next ==
  \/ ApplyMalformed \/ ApplyRoot \/ ApplyAdd \/ ApplyRemove \/ ApplyReplace
  \/ ApplyStrIns \/ ApplyStrDel \/ ApplyInc \/ ApplyCopy \/ ApplyMove \/ ApplyTest
  \/ ApplyUnknown \/ Return

Spec == Init /\ [][Next]_vars

\* ------------------------------------------------------ reading a document
\* The properties below read the document on their own: by the decoded
\* tokens of a pointer, through the trees the values denote.
Tokens(raw) ==
  LET segs == Split(TrimPrefix(raw, <<chSlash>>), chSlash)
  IN [j \in 1..Len(segs) |-> decodePointerSegment(segs[j]).s]
Decodes(raw) ==
  LET segs == Split(TrimPrefix(raw, <<chSlash>>), chSlash)
  IN \A j \in 1..Len(segs) : decodePointerSegment(segs[j]).ok
Front(q) == SubSeq(q, 1, Len(q) - 1)
Leaf(q) == q[Len(q)]

Missing == [t |-> "missing"]
\* the child of a value under one token; Missing where there is none
Child(H, v, tok) ==
  CASE v.t = "map" -> IF tok \in DOMAIN H.maps[v.id] THEN H.maps[v.id][tok] ELSE Missing
    [] v.t = "list" ->
         IF Atoi(tok).ok /\ Atoi(tok).n >= 0 /\ Atoi(tok).n < v.len
           THEN ElemAt(H, v, Atoi(tok).n) ELSE Missing
    [] OTHER -> Missing
RECURSIVE ValueAt(_, _, _)
ValueAt(H, v, toks) ==
  IF toks = <<>> \/ v = Missing THEN v ELSE ValueAt(H, Child(H, v, Head(toks)), Tail(toks))
At(H, raw) == ValueAt(H, Doc, Tokens(raw))
ParentAt(H, raw) == ValueAt(H, Doc, Front(Tokens(raw)))

\* the last step of the loop took an operation of this kind to the dispatcher
LastIs(kind) == last.op.t = "str" /\ last.path.t = "str" /\ last.path.s # <<>> /\ last.op.s = kind
Tree(H, v) == Deep(H, v, MaxDepth)

\* ------------------------------------------------------------------ claims
\* what one step of the loop may do
C1_Step ==
  /\ pc = "returned" => UNCHANGED vars
  /\ i' # i => i' = i + 1 /\ i < n /\ pc = "running" /\ err = "none"
  /\ err' # "none" /\ pc = "running" =>
       /\ pc' = "returned" /\ i' = i + 1
       /\ (last'.op.t = "str" /\ last'.op.s = kMove) \/ DocTree(heap') = DocTree(heap)
  /\ pc' = "returned" /\ err' = "none" => i' = n /\ heap' = heap

ListIndex(tok, len) == IF tok = <<chDash>> THEN [ok |-> TRUE, n |-> len] ELSE Atoi(tok)
\* list Q (in heap G) is list P (in heap H) with value v (of heap Hv) put in at index k
InsertedAt(G, Q, H, P, Hv, v, k) ==
  /\ Q.t = "list" /\ Q.len = P.len + 1
  /\ Tree(G, ElemAt(G, Q, k)) = Tree(Hv, v)
  /\ \A j \in 0..(P.len - 1) :
       Tree(G, ElemAt(G, Q, IF j < k THEN j ELSE j + 1)) = Tree(H, ElemAt(H, P, j))
\* map object id (in heap G) is what it was in heap H except that key k holds v (of heap Hv)
KeySetTo(G, H, id, Hv, v, k) ==
  /\ DOMAIN G.maps[id] = DOMAIN H.maps[id] \cup {k}
  /\ Tree(G, G.maps[id][k]) = Tree(Hv, v)

\* add on the list P at index k; add under the parent P at the token tok
C2_ListAdd(P, k) ==
  IF k < 0 \/ k > P.len THEN err = "IndexOutOfBounds"
  ELSE err = "none" /\ InsertedAt(heap, ParentAt(heap, last.path.s), pre, P, pre, last.value, k)
C2_AddAt(P, tok) ==
  CASE P.t = "map" -> err = "none" /\ KeySetTo(heap, pre, P.id, pre, last.value, tok)
    [] P.t = "list" -> ListIndex(tok, P.len).ok => C2_ListAdd(P, ListIndex(tok, P.len).n)
    [] OTHER -> TRUE

\* C2: an add with a value whose path leads to a Map sets the key to the
\* value and succeeds; one whose path leads to a List of length n and names
\* an index succeeds iff the index is in [0, n] ('-' being n), the list at
\* that place then having n+1 elements: the value at the index, the earlier
\* ones before it and the later ones shifted up by one; any other index
\* fails with IndexOutOfBounds.
C2_AddSemantics ==
  LastIs(kAdd) /\ last.value # Absent /\ Decodes(last.path.s) =>
    C2_AddAt(ParentAt(pre, last.path.s), Leaf(Tokens(last.path.s)))

\* list Q (in heap G) is list P (in heap H) without its element at index k
RemovedAt(G, Q, H, P, k) ==
  /\ Q.t = "list" /\ Q.len = P.len - 1
  /\ \A j \in 0..(Q.len - 1) :
       Tree(G, ElemAt(G, Q, j)) = Tree(H, ElemAt(H, P, IF j < k THEN j ELSE j + 1))
\* map object id has in heap G the entries it had in heap H, but for key k
SameButKey(G, H, id, k) ==
  /\ DOMAIN G.maps[id] \ {k} = DOMAIN H.maps[id] \ {k}
  /\ \A x \in DOMAIN H.maps[id] \ {k} : Tree(G, G.maps[id][x]) = Tree(H, H.maps[id][x])

\* remove under the Map P of key tok; remove from the list P at index k
C3_MapRemove(P, tok) ==
  IF tok \notin DOMAIN pre.maps[P.id] THEN err = "PathNotFound"
  ELSE err = "none" /\ tok \notin DOMAIN heap.maps[P.id] /\ SameButKey(heap, pre, P.id, tok)
C3_ListRemove(P, k) ==
  IF k < 0 \/ k >= P.len THEN err = "IndexOutOfBounds"
  ELSE err = "none" /\ RemovedAt(heap, ParentAt(heap, last.path.s), pre, P, k)
C3_RemoveAt(P, tok) ==
  CASE P.t = "map" -> C3_MapRemove(P, tok)
    [] P.t = "list" -> ListIndex(tok, P.len).ok => C3_ListRemove(P, ListIndex(tok, P.len).n)
    [] OTHER -> TRUE

\* C3: a remove whose path leads to a Map fails with PathNotFound when the
\* key is absent and otherwise leaves the Map with the old keys minus that
\* key, the other entries unchanged; one whose path leads to a List of
\* length n fails with IndexOutOfBounds unless the index is in [0, n) ('-'
\* included), and otherwise leaves at that place the list of the n-1 other
\* elements, those after the index shifted down by one.
C3_RemoveSemantics ==
  LastIs(kRemove) /\ Decodes(last.path.s) =>
    C3_RemoveAt(ParentAt(pre, last.path.s), Leaf(Tokens(last.path.s)))

\* list Q (in heap G) is list P (in heap H) with the element at index k replaced by v (of Hv)
ReplacedAt(G, Q, H, P, Hv, v, k) ==
  /\ Q.t = "list" /\ Q.len = P.len
  /\ \A j \in 0..(P.len - 1) :
       Tree(G, ElemAt(G, Q, j)) = IF j = k THEN Tree(Hv, v) ELSE Tree(H, ElemAt(H, P, j))
\* the list found at the operation's parent place is still the list P of before
ListKept(P) ==
  /\ ParentAt(heap, last.path.s).t = "list"
  /\ Tree(heap, ParentAt(heap, last.path.s)) = Tree(pre, P)

\* replace under the Map P of key tok; replace in the list P at index k
C4_MapReplace(P, tok) ==
  IF tok \in DOMAIN pre.maps[P.id]
    THEN /\ err = "none"
         /\ KeySetTo(heap, pre, P.id, pre, last.value, tok)
         /\ SameButKey(heap, pre, P.id, tok)
    ELSE err = "PathNotFound" /\ tok \notin DOMAIN heap.maps[P.id]
C4_ListReplace(P, k) ==
  IF k >= 0 /\ k < P.len
    THEN err = "none"
         /\ ReplacedAt(heap, ParentAt(heap, last.path.s), pre, P, pre, last.value, k)
    ELSE err = "IndexOutOfBounds" /\ ListKept(P)
C4_ReplaceAt(P, tok) ==
  CASE P.t = "map" -> C4_MapReplace(P, tok)
    [] P.t = "list" -> ListIndex(tok, P.len).ok => C4_ListReplace(P, ListIndex(tok, P.len).n)
    [] OTHER -> TRUE

\* C4: a replace with a value succeeds iff its target exists (the key is in
\* the Map, the index is in [0, length) of the List); it then changes the
\* value at that key or index and nothing else of the container, whose key
\* set or length stays; otherwise it fails with PathNotFound (Map) or
\* IndexOutOfBounds (List), the key is not created and the list not extended.
C4_ReplaceSemantics ==
  LastIs(kReplace) /\ last.value # Absent /\ Decodes(last.path.s) =>
    C4_ReplaceAt(ParentAt(pre, last.path.s), Leaf(Tokens(last.path.s)))

\* the two-step sequence on heap H: remove(from), then add(path, v) with v the
\* value that was at from, the path being resolved after the removal
RemoveStep(H, op) == opRemove(H, op, resolvePath(H, op.from.s))
AddStep(H1, op, v) == opAdd(H1, [op EXCEPT !.value = v], resolvePath(H1, op.path.s), 0)
RemoveThenAdd(H, op) ==
  IF resolvePath(H, op.from.s).err # "none" \/ RemoveStep(H, op).err # "none"
    THEN Fail(H, "remove")
    ELSE AddStep(RemoveStep(H, op).H, op, At(H, op.from.s))
\* where the element at index k of the result comes from, when the element
\* at index a of a list is taken out and put in at index b of the shortened list
MovedFrom(k, a, b) ==
  IF k = b THEN a
  ELSE IF (IF k < b THEN k ELSE k - 1) < a
    THEN (IF k < b THEN k ELSE k - 1) ELSE (IF k < b THEN k ELSE k - 1) + 1
\* list Q (in heap G) is list P (in heap H) with the element at a moved to b
Rearranged(G, Q, H, P, a, b) ==
  /\ Q.t = "list" /\ Q.len = P.len
  /\ \A k \in 0..(P.len - 1) :
       Tree(G, ElemAt(G, Q, k)) = Tree(H, ElemAt(H, P, MovedFrom(k, a, b)))
\* from and path name two positions of one list
SameList(fromRaw, pathRaw) ==
  /\ Decodes(fromRaw) /\ Decodes(pathRaw)
  /\ Front(Tokens(fromRaw)) = Front(Tokens(pathRaw))
  /\ ParentAt(pre, fromRaw).t = "list"
  /\ Atoi(Leaf(Tokens(fromRaw))).ok
  /\ ListIndex(Leaf(Tokens(pathRaw)), ParentAt(pre, fromRaw).len - 1).ok
C5_WithinList(P, fromRaw, pathRaw) ==
  Rearranged(heap, ParentAt(heap, pathRaw), pre, P, Atoi(Leaf(Tokens(fromRaw))).n,
             ListIndex(Leaf(Tokens(pathRaw)), P.len - 1).n)

\* C5: a successful move leaves the document as remove(from) followed by
\* add(path, v) leaves it, v being the value that was at from and the path
\* being resolved after the removal; for two positions of one List the
\* element is taken out at the one and put in at the other index of the
\* shortened list, the length and the elements being kept.
C5_MoveIsRemoveThenAdd ==
  LastIs(kMove) /\ err = "none" =>
    /\ RemoveThenAdd(pre, last).err = "none"
    /\ DocTree(heap) = DocTree(RemoveThenAdd(pre, last).H)
    /\ SameList(last.from.s, last.path.s) =>
         C5_WithinList(ParentAt(pre, last.from.s), last.from.s, last.path.s)

\* path is from or lies beneath it
Nested(fromRaw, pathRaw) == HasPrefix(pathRaw \o <<chSlash>>, fromRaw \o <<chSlash>>)
\* the pointer leads to a place: its tokens decode, all but the last lead to
\* a Map or a List, and under a List the last one names an index
Resolves(H, raw) ==
  /\ Decodes(raw)
  /\ \/ ParentAt(H, raw).t = "map"
     \/ ParentAt(H, raw).t = "list"
        /\ ListIndex(Leaf(Tokens(raw)), ParentAt(H, raw).len).ok
ResolutionErrors ==
  {"InvalidPointer", "PathNotFound", "InvalidIndex", "IndexOutOfBounds",
   "NonContainerTraversal", "NonContainerBeforeFinal"}
NestedMove == LastIs(kMove) /\ last.from.t = "str" /\ Nested(last.from.s, last.path.s)

\* C6 (as stated): a move whose path is its from or lies beneath it fails
\* with MovePrefixConflict and leaves the document unchanged.
C6_PrefixConflict ==
  NestedMove => err = "MovePrefixConflict" /\ heap = pre

\* C6 (amended): such a move always fails and leaves the document unchanged;
\* its error is MovePrefixConflict when the path leads to a place in the
\* document, and the error of resolving the path when it does not.
C6_PrefixConflictAfterResolution ==
  NestedMove =>
    /\ heap = pre
    /\ IF Resolves(pre, last.path.s) THEN err = "MovePrefixConflict"
       ELSE err \in ResolutionErrors

\* a move of a Map under one of its own keys was refused
C6_Witness ==
  /\ NestedMove /\ err = "MovePrefixConflict"
  /\ last.from.s # last.path.s /\ At(pre, last.from.s).t = "map"

IsPrefix(p, q) == Len(p) <= Len(q) /\ SubSeq(q, 1, Len(p)) = p
\* the insertion at path cannot touch what from names: neither pointer lies
\* on the other's way, and no list on the way to from is the one inserted into
Apart(fromRaw, pathRaw) ==
  /\ ~IsPrefix(Tokens(fromRaw), Tokens(pathRaw))
  /\ ~IsPrefix(Front(Tokens(pathRaw)), Front(Tokens(fromRaw)))
     \/ (ParentAt(pre, pathRaw).t = "map" /\ ~IsPrefix(Tokens(pathRaw), Tokens(fromRaw)))

\* copy of the value v under the Map or into the List P, at the token tok
C7_ListCopy(P, v, k) ==
  IF k < 0 \/ k > P.len THEN err = "IndexOutOfBounds"
  ELSE err = "none" /\ InsertedAt(heap, ParentAt(heap, last.path.s), pre, P, pre, v, k)
C7_CopyTo(P, v, tok) ==
  CASE P.t = "map" -> err = "none" /\ KeySetTo(heap, pre, P.id, pre, v, tok)
    [] P.t = "list" -> ListIndex(tok, P.len).ok => C7_ListCopy(P, v, ListIndex(tok, P.len).n)
    [] OTHER -> TRUE
C7_SourceKept(fromRaw, pathRaw) ==
  err = "none" /\ Apart(fromRaw, pathRaw) =>
    Tree(heap, At(heap, fromRaw)) = Tree(pre, At(pre, fromRaw))
C7_Copy(fromRaw, pathRaw) ==
  IF At(pre, fromRaw) = Missing THEN err # "none" /\ DocTree(heap) = DocTree(pre)
  ELSE /\ C7_CopyTo(ParentAt(pre, pathRaw), At(pre, fromRaw), Leaf(Tokens(pathRaw)))
       /\ C7_SourceKept(fromRaw, pathRaw)

\* C7: a copy whose from names a value puts that value at path by the rules
\* of add (under a Map the key is created or overwritten; in a List of length
\* n the index must be in [0, n] and the later elements shift up), so that
\* the value at path equals the value that was at from, which stays where
\* it was; a copy whose from names a missing key or an index out of range
\* fails and leaves the document unchanged.
C7_CopySemantics ==
  LastIs(kCopy) /\ last.from.t = "str" /\ Decodes(last.from.s) /\ Decodes(last.path.s) =>
    C7_Copy(last.from.s, last.path.s)

\* equality of two JSON trees: numbers by value whatever their type, strings,
\* booleans and null by value, Maps by key set and entries, Lists by length
\* and elements, values of different kinds unequal
RECURSIVE SameJSON(_, _)
SameJSON(x, y) ==
  CASE x.t = "num" -> y.t = "num" /\ x.x2 = y.x2
    [] x.t = "M" ->
         /\ y.t = "M" /\ DOMAIN x.m = DOMAIN y.m
         /\ \A k \in DOMAIN x.m : SameJSON(x.m[k], y.m[k])
    [] x.t = "L" ->
         /\ y.t = "L" /\ Len(x.e) = Len(y.e)
         /\ \A j \in 1..Len(x.e) : SameJSON(x.e[j], y.e[j])
    [] x.t \in {"str", "bool", "null"} -> x = y
    [] OTHER -> FALSE

\* a value of the kinds named: its numbers are of the integer and float
\* types the package takes for numbers
RECURSIVE OfNamedKinds(_)
OfNamedKinds(x) ==
  CASE x.t = "num" -> x.w \in NumericTypes
    [] x.t = "M" -> \A k \in DOMAIN x.m : OfNamedKinds(x.m[k])
    [] x.t = "L" -> \A j \in 1..Len(x.e) : OfNamedKinds(x.e[j])
    [] OTHER -> TRUE
\* the verdict of a test on the value cur, Missing when path names none
C8_Verdict(cur) ==
  IF cur = Missing THEN err # "none"
  ELSE IF ~(OfNamedKinds(Tree(pre, cur)) /\ OfNamedKinds(Tree(pre, last.value))) THEN heap = pre
  ELSE IF SameJSON(Tree(pre, cur), Tree(pre, last.value)) THEN err = "none"
  ELSE err = "TestFailed"

RECURSIVE Units(_)
Units(text) ==
  IF text = <<>> THEN <<>>
  ELSE (IF text[1] > MaxBMP
          THEN <<55296 + ((text[1] - 65536) \div 1024), 56320 + ((text[1] - 65536) % 1024)>>
          ELSE <<text[1]>>) \o Units(Tail(text))
UnitsBefore(text, k) == Len(Units(SubSeq(text, 1, k)))
\* the code point index of a UTF-16 offset: the most code points that fit in it
CodePointIndex(text, off) ==
  IF off <= 0 THEN 0
  ELSE CHOOSE k \in 0..Len(text) :
         /\ UnitsBefore(text, k) <= off
         /\ \A j \in (k + 1)..Len(text) : UnitsBefore(text, j) > off
OnBoundary(text, off) == \E k \in 0..Len(text) : UnitsBefore(text, k) = off
Splice(text, k, ins) == SubSeq(text, 1, k) \o ins \o SubSeq(text, k + 1, Len(text))
Without(text, k, cnt) == SubSeq(text, 1, k) \o SubSeq(text, k + cnt + 1, Len(text))

\* str_ins of a numeric pos and a String str on a String target
StrInsOnString ==
  /\ LastIs(kStrIns) /\ Decodes(last.path.s) /\ At(pre, last.path.s).t = "str"
  /\ getNumericValue(last.pos).ok /\ last.str.t = "str"
\* the string old became new by splicing ins in at the UTF-16 offset off
C9_Spliced(old, new, off, ins) ==
  /\ new = Str(Splice(old, CodePointIndex(old, off), ins))
  /\ OnBoundary(old, off) =>
       Units(new.s) = SubSeq(Units(old), 1, off) \o Units(ins)
                        \o SubSeq(Units(old), off + 1, Len(Units(old)))
C9_Outcome(old, off) ==
  IF off > Len(Units(old))
    THEN err = "InvalidPosition" /\ At(heap, last.path.s) = Str(old)
    ELSE err = "none" /\ C9_Spliced(old, At(heap, last.path.s), off, last.str.s)

\* C9: str_ins on a String takes pos as a UTF-16 offset: beyond the length
\* of the string in code units it fails with InvalidPosition and the string
\* stays; otherwise the string becomes the old one with str spliced in at
\* the code point index of that offset (the most code points that fit in
\* it; the length appends), so that for an offset on a code point boundary
\* the code units of the result are old[0..pos) + str + old[pos..).
C9_StrInsSemantics ==
  StrInsOnString => C9_Outcome(At(pre, last.path.s).s, TruncInt(last.pos.x2))

\* the insertion at offset 9 of "Hello <U+1F30D> world" fell after the
\* surrogate pair and the space that follows it
C9_Witness ==
  /\ StrInsOnString /\ err = "none"
  /\ At(pre, last.path.s) = Str(Hello) /\ last.pos = Nine
  /\ At(heap, last.path.s) = Str(SubSeq(Hello, 1, 8) \o last.str.s \o SubSeq(Hello, 9, 13))

\* str_del of a numeric pos on a String target
StrDelOnString ==
  /\ LastIs(kStrDel) /\ Decodes(last.path.s) /\ At(pre, last.path.s).t = "str"
  /\ getNumericValue(last.pos).ok
\* the string stays as it was
StringKept == At(heap, last.path.s) = At(pre, last.path.s)
\* the code points a UTF-16 length len covers from the offset off
LenInCodePoints(old, off, len) ==
  IF len <= 0 THEN 0 ELSE CodePointIndex(old, off + len) - CodePointIndex(old, off)
\* a deletion of cnt code points at the offset off: done when the span lies
\* in the string, refused with InvalidRange otherwise
C10_Delete(old, off, cnt) ==
  IF off <= Len(Units(old)) /\ CodePointIndex(old, off) + cnt <= Len(old)
    THEN err = "none"
         /\ At(heap, last.path.s) = Str(Without(old, CodePointIndex(old, off), cnt))
    ELSE err = "InvalidRange" /\ StringKept
C10_ByLen(old, off) ==
  getNumericValue(last.len).ok =>
    C10_Delete(old, off, LenInCodePoints(old, off, TruncInt(last.len.x2)))

\* C10 (as stated): a str field fixes the number of code points deleted by
\* its own count of code points, whatever its content and whatever len
\* says; without str, len is a UTF-16 length translated to code points;
\* with neither the operation fails with MissingField and the string stays.
C10_LengthPriority ==
  StrDelOnString =>
    IF last.str # Absent
      THEN last.str.t = "str" =>
             C10_Delete(At(pre, last.path.s).s, TruncInt(last.pos.x2), Len(last.str.s))
    ELSE IF last.len # Absent
      THEN C10_ByLen(At(pre, last.path.s).s, TruncInt(last.pos.x2))
    ELSE err = "MissingField" /\ StringKept

\* what str and len say once pos is known to lie in the string
C10_Length(old, off) ==
  IF last.str.t = "str" THEN C10_Delete(old, off, Len(last.str.s))
  ELSE IF last.len # Absent
    THEN IF getNumericValue(last.len).ok
           THEN C10_Delete(old, off, LenInCodePoints(old, off, TruncInt(last.len.x2)))
           ELSE err = "InvalidParams" /\ StringKept
  ELSE err = "MissingField" /\ StringKept

\* C10 (amended): a pos beyond the end of the string fails with InvalidRange
\* before str and len are looked at; otherwise a str that is a String fixes
\* the count by its code points, whatever its content and whatever len says;
\* else a len, which must be numeric, is translated from UTF-16 to code
\* points; else, with no len and no String str, the operation fails with
\* MissingField; the string stays whenever the operation fails.
C10_LengthPriorityInRange ==
  StrDelOnString =>
    IF TruncInt(last.pos.x2) > Len(Units(At(pre, last.path.s).s))
      THEN err = "InvalidRange" /\ StringKept
      ELSE C10_Length(At(pre, last.path.s).s, TruncInt(last.pos.x2))

\* a str that is not the text at pos, given with another len, deleted as
\* many code points as it has: "z" with len 0 took out one code point
C10_Witness ==
  /\ StrDelOnString /\ err = "none" /\ last.str = Str(sz) /\ last.len = IntV(0)
  /\ Len(At(heap, last.path.s).s) = Len(At(pre, last.path.s).s) - 1
  /\ sz # SubSeq(At(pre, last.path.s).s, CodePointIndex(At(pre, last.path.s).s, TruncInt(last.pos.x2)) + 1,
                 CodePointIndex(At(pre, last.path.s).s, TruncInt(last.pos.x2)) + 1)

\* the code point span a str_del names: it starts at the code point index of
\* pos and has as many code points as str has, or as len covers
C11_HasSpan == last.str.t = "str" \/ (last.len # Absent /\ getNumericValue(last.len).ok)
C11_Start(old) == CodePointIndex(old, TruncInt(last.pos.x2))
C11_Count(old) ==
  IF last.str.t = "str" THEN Len(last.str.s)
  ELSE LenInCodePoints(old, TruncInt(last.pos.x2), TruncInt(last.len.x2))
C11_InRange(old, p, cnt) ==
  /\ TruncInt(last.pos.x2) <= Len(Units(old))
  /\ 0 <= p /\ 0 <= cnt /\ p + cnt <= Len(old)
\* new is old with the code points [p, p + cnt) taken out
C11_Removed(old, new, p, cnt) ==
  /\ new.t = "str" /\ Len(new.s) = Len(old) - cnt
  /\ \A j \in 1..Len(new.s) : new.s[j] = old[IF j <= p THEN j ELSE j + cnt]
C11_Outcome(old, p, cnt) ==
  IF C11_InRange(old, p, cnt)
    THEN err = "none" /\ C11_Removed(old, At(heap, last.path.s), p, cnt)
    ELSE err = "InvalidRange" /\ StringKept

\* C11: a str_del that names a span (a numeric pos, and a String str or a
\* numeric len) on a String succeeds iff pos is not beyond the end of the
\* string and the resulting code point span satisfies 0 <= pos, 0 <= length
\* and pos + length <= the string's code point length; the string then is
\* the old one without the code points [pos, pos + length); otherwise the
\* operation fails with InvalidRange and the string is unchanged.
C11_StrDelRange ==
  StrDelOnString /\ C11_HasSpan =>
    C11_Outcome(At(pre, last.path.s).s, C11_Start(At(pre, last.path.s).s),
                C11_Count(At(pre, last.path.s).s))

\* a len of two code units at offset 1 took the one code point of the
\* surrogate pair out of "a<U+1F30D>b"
C11_Witness ==
  /\ StrDelOnString /\ err = "none" /\ last.pos = One /\ last.str = Absent /\ last.len = IntV(2)
  /\ At(pre, last.path.s) = Str(<<97, Globe, 98>>) /\ At(heap, last.path.s) = Str(<<97, 98>>)

\* a str longer than the text left after pos was refused
C11_Refused ==
  /\ StrDelOnString /\ err = "InvalidRange" /\ last.str.t = "str"
  /\ TruncInt(last.pos.x2) <= Len(Units(At(pre, last.path.s).s))

\* the offset falls between the two code units of a surrogate pair
InsidePair(text, off) ==
  \E k \in 1..Len(text) : text[k] > MaxBMP /\ off = UnitsBefore(text, k - 1) + 1
Utf16Safe(text, off) == off <= Len(Units(text)) /\ ~InsidePair(text, off)
\* the last operation was a str_ins on a String at a UTF-16-safe position
SafeInsertion ==
  /\ StrInsOnString
  /\ Utf16Safe(At(pre, last.path.s).s, TruncInt(last.pos.x2))
\* the step taken is the str_del that names the position and the text of
\* the str_ins before it
DeletionOfInserted ==
  /\ i' = i + 1
  /\ last'.op = Str(kStrDel) /\ last'.path = last.path
  /\ last'.pos = last.pos /\ last'.str = last.str
C12_Step ==
  SafeInsertion /\ DeletionOfInserted =>
    err' = "none" /\ At(heap', last.path.s) = At(pre, last.path.s)

\* C12: a str_ins(path, p, s) on a String at a UTF-16-safe position p (at
\* most the string's UTF-16 length, not inside a surrogate pair) succeeds,
\* and the str_del(path, p, str = s) that follows it succeeds and leaves at
\* path exactly the string that was there before the insertion.
C12_InsertThenDelete ==
  /\ [](SafeInsertion => err = "none")
  /\ [][C12_Step]_vars

\* a surrogate pair inserted after the pair of "a<U+1F30D>b" (offset 3) was
\* taken out again by the deletion that followed
C12_Witness ==
  /\ LastIs(kStrDel) /\ err = "none" /\ i = 2 /\ last.pos = IntV(3) /\ last.str = Str(<<Globe>>)
  /\ At(pre, last.path.s) = Str(<<97, Globe, Globe, 98>>)
  /\ At(heap, last.path.s) = Str(<<97, Globe, 98>>)
  /\ DocTree(heap) = InitDoc(sc)

\* inc of a numeric operand on a Number target
IncOnNumber ==
  /\ LastIs(kInc) /\ Decodes(last.path.s)
  /\ At(pre, last.path.s) # Missing /\ At(pre, last.path.s).t = "num" /\ last.inc.t = "num"
\* the sum of target and operand (twice it), and whether int can hold its
\* integer part
IncSum2 == At(pre, last.path.s).x2 + last.inc.x2
SumInRange == TruncInt(IncSum2) >= MinInt /\ TruncInt(IncSum2) <= MaxInt

\* C13: an inc with a numeric operand on a Number succeeds and stores, as a
\* plain integer (type int), the integer part - truncation toward zero - of
\* the sum of target and operand, whatever numeric types the two had.
C13_IncStoresIntegerPart ==
  IncOnNumber => err = "none" /\ At(heap, last.path.s) = IntV(TruncInt(IncSum2))

\* float64 holds the number exactly
Exact(x2) == toFloat64(x2) = x2
\* the same for the targets, operands and sums that float64 holds exactly
\* and whose integer part int can hold
C13_InRange ==
  IncOnNumber /\ SumInRange /\ Exact(At(pre, last.path.s).x2) /\ Exact(last.inc.x2) /\ Exact(IncSum2) =>
    err = "none" /\ At(heap, last.path.s) = IntV(TruncInt(IncSum2))
\* whatever the sum, what a successful inc stores is an integer
C13_Integral ==
  IncOnNumber /\ err = "none" =>
    At(heap, last.path.s).w = "int" /\ At(heap, last.path.s).x2 % 2 = 0
\* a sum beyond the range of int was stored as something else than its
\* integer part
C13_Overflow ==
  /\ IncOnNumber /\ err = "none" /\ ~SumInRange
  /\ At(heap, last.path.s) # IntV(TruncInt(IncSum2))

\* the last operation was a successful inc(path, d) on a Number, and the step
\* taken is inc(path, -d)
IncThenOpposite ==
  /\ IncOnNumber /\ err = "none" /\ i' = i + 1
  /\ last'.op = Str(kInc) /\ last'.path = last.path
  /\ last'.inc.t = "num" /\ last'.inc.x2 = 0 - last.inc.x2
Integral(x2) == x2 % 2 = 0
\* the value of a number, twice: what is at path before the first inc, and
\* after the second
Before2 == At(pre, last.path.s).x2
After2 == At(heap', last.path.s).x2

\* C14 (as stated): inc(path, d) followed by inc(path, -d) leaves at path the
\* integer part of the Number x that was there (x itself when x was integral).
C14_StepAsStated == IncThenOpposite => err' = "none" /\ After2 = 2 * TruncInt(Before2)
C14_RoundTrip == [][C14_StepAsStated]_vars

\* float64 holds the number exactly and int holds its integer part
Small(x2) == Exact(x2) /\ TruncInt(x2) >= MinInt /\ TruncInt(x2) <= MaxInt
\* x, d, x + d and int(x + d) - d are such numbers
SmallRoundTrip ==
  /\ Small(Before2) /\ Small(last.inc.x2) /\ Small(Before2 + last.inc.x2)
  /\ Small(2 * TruncInt(Before2 + last.inc.x2) - last.inc.x2)
\* x + d is not on the other side of zero than x
SameSide == (Before2 >= 0 /\ Before2 + last.inc.x2 >= 0) \/ (Before2 <= 0 /\ Before2 + last.inc.x2 <= 0)
C14_StepAmended ==
  IncThenOpposite =>
    /\ err' = "none" /\ Integral(After2)
    /\ SmallRoundTrip =>
         /\ After2 - 2 * TruncInt(Before2) \in {-2, 0, 2}
         /\ Integral(last.inc.x2) /\ (Integral(Before2) \/ SameSide) =>
              After2 = 2 * TruncInt(Before2)

\* C14 (amended): inc(path, d) followed by inc(path, -d) succeeds and leaves
\* an integer at path; while the numbers involved are held exactly by
\* float64 and within the range of int, that integer differs from the
\* integer part of the original x by at most one, and it is that integer
\* part whenever d is integral and x is integral or x + d is not on the
\* other side of zero than x (so: exactly x when x and d are integral).
C14_RoundTripIntegral == [][C14_StepAmended]_vars

\* 10.5 incremented by 11 and then by -11 is back at 10
C14_Witness ==
  /\ LastIs(kInc) /\ err = "none" /\ i = 2 /\ last.inc = IntV(-11)
  /\ At(pre, last.path.s) = IntV(21) /\ At(heap, last.path.s) = IntV(10)
  /\ DocTree(pre) # InitDoc(sc)

\* the last operation was a successful add at a key of a Map
AddAtMapKey ==
  /\ LastIs(kAdd) /\ err = "none" /\ Decodes(last.path.s)
  /\ ParentAt(pre, last.path.s).t = "map"
\* the key was in the Map before the add
KeyWasThere == Leaf(Tokens(last.path.s)) \in DOMAIN pre.maps[ParentAt(pre, last.path.s).id]
\* the step taken is the replace at the same path with the value that was
\* there before the add; the step taken is the remove at the same path
ReplaceWithOld ==
  /\ i' = i + 1 /\ last'.op = Str(kReplace) /\ last'.path = last.path
  /\ last'.value # Absent /\ KeyWasThere
  /\ Tree(pre', last'.value) = Tree(pre, At(pre, last.path.s))
RemoveAdded == i' = i + 1 /\ last'.op = Str(kRemove) /\ last'.path = last.path
\* the keys of the parent Map before the add and after the second operation
KeysBefore == DOMAIN pre.maps[ParentAt(pre, last.path.s).id]
KeysAfter == DOMAIN heap'.maps[ParentAt(pre, last.path.s).id]
\* the add has left the way to its parent Map as it was (it can replace a
\* Map on its own path only where a Map is reachable through itself)
ParentStill == ParentAt(heap, last.path.s) = ParentAt(pre, last.path.s)
C15_Restored ==
  AddAtMapKey /\ ParentStill /\ ReplaceWithOld =>
    /\ err' = "none" /\ KeysAfter = KeysBefore
    /\ Tree(heap', At(heap', last.path.s)) = Tree(pre, At(pre, last.path.s))

\* C15 (as stated): after add(path, newValue) at an existing Map key,
\* replace(path, oldValue) restores the value the key held, and remove(path)
\* restores the key set the parent Map had.
C15_StepAsStated ==
  /\ C15_Restored
  /\ AddAtMapKey /\ ParentStill /\ KeyWasThere /\ RemoveAdded =>
       err' = "none" /\ KeysAfter = KeysBefore
C15_StepAmended ==
  /\ C15_Restored
  /\ AddAtMapKey /\ ParentStill /\ RemoveAdded =>
       /\ err' = "none"
       /\ KeysAfter = KeysBefore \ {Leaf(Tokens(last.path.s))}
C15_Removed ==
  /\ sc = "undo" /\ i = 2 /\ LastIs(kRemove) /\ err = "none"
  /\ last.path = Str(Path(<<kd>>)) /\ DocTree(pre) # InitDoc(sc) /\ DocTree(heap) = InitDoc(sc)

\* the last operation was one of this kind on the root path
RootIs(kinds) ==
  /\ last.op.t = "str" /\ last.path = Str(<<>>) /\ last.op.s \in kinds
\* the document (the caller's Map object) has the entries of the Map m, the
\* very values that m holds, and m is another object, left as it was
DocHolds(m) ==
  /\ m.id # Doc.id
  /\ heap.maps[Doc.id] = pre.maps[m.id]
  /\ heap.maps[m.id] = pre.maps[m.id]
  /\ DocTree(heap) = Tree(pre, m)
C16_RootSet(v, missing) ==
  IF v = Absent THEN err = missing /\ heap = pre
  ELSE IF v.t = "map" THEN err = "none" /\ DocHolds(v)
  ELSE err = "TypeMismatch" /\ heap = pre

\* C16 (as stated): a replace or add on the root path with a Map value
\* leaves the caller's Map object with exactly the keys and values of that
\* Map; with a value that is not a Map, or with no value, it fails with
\* TypeMismatch and the document is unchanged.
C16_RootReplace == RootIs({kReplace, kAdd}) => C16_RootSet(last.value, "TypeMismatch")

\* C16 (amended): the same, but an operation with no value field fails with
\* MissingField.
C16_RootReplaceValue == RootIs({kReplace, kAdd}) => C16_RootSet(last.value, "MissingField")

\* the root was replaced by a Map that shares the key a with the document:
\* the other keys are gone and a holds the new value
C16_Witness ==
  /\ RootIs({kReplace, kAdd}) /\ err = "none"
  /\ DOMAIN heap.maps[Doc.id] = {ka, kd} /\ DOMAIN pre.maps[Doc.id] = {ka, ks, kc}
  /\ Tree(heap, At(heap, Path(<<ka>>))) = TM(kc :> One)

\* C17: a remove on the root path succeeds and leaves the document without
\* any key, also when it had none; an operation of any other kind than
\* replace, add and remove on the root path fails with
\* UnsupportedRootOperation and leaves the document unchanged.
C17_RootOthers ==
  /\ RootIs({kRemove}) => err = "none" /\ heap.maps[Doc.id] = EmptyMap
  /\ last.op.t = "str" /\ last.path = Str(<<>>) /\ last.op.s \notin {kReplace, kAdd, kRemove} =>
       err = "UnsupportedRootOperation" /\ heap = pre

\* a remove on the root of a document that was empty already
C17_Witness ==
  /\ RootIs({kRemove}) /\ err = "none" /\ i = 2
  /\ pre.maps[Doc.id] = EmptyMap /\ heap.maps[Doc.id] = EmptyMap
\* a move with a from was refused on the root path
C17_Refused ==
  /\ RootIs({kMove}) /\ last.from # Absent /\ err = "UnsupportedRootOperation" /\ heap = pre

\* the target of the last operation: its path led to a place in the
\* document before the operation, and the value that was there
TargetPlace == Decodes(last.path.s) /\ Resolves(pre, last.path.s)
Target == At(pre, last.path.s)
IsNumber(v) == v.t = "num"
\* the last operation was refused with this error and changed nothing
Refused(e) == err = e /\ heap = pre
C18_StrOnOther ==
  /\ LastIs(kStrIns) /\ getNumericValue(last.pos).ok /\ last.str.t = "str"
       /\ TargetPlace /\ Target # Missing /\ Target.t # "str"
       => Refused("TypeMismatch")
  /\ LastIs(kStrDel) /\ getNumericValue(last.pos).ok
       /\ TargetPlace /\ Target # Missing /\ Target.t # "str"
       => Refused("TypeMismatch")
C18_IncOnOther ==
  /\ LastIs(kInc) /\ TargetPlace /\ last.inc = Absent => Refused("MissingField")
  /\ LastIs(kInc) /\ TargetPlace /\ last.inc # Absent /\ ~IsNumber(last.inc)
       => Refused("TypeMismatch")
  /\ LastIs(kInc) /\ TargetPlace /\ IsNumber(last.inc) /\ Target # Missing /\ ~IsNumber(Target)
       => Refused("TypeMismatch")
C18_AbsentTarget ==
  /\ last.op.t = "str" /\ last.op.s \in {kStrIns, kStrDel, kInc}
  /\ last.path.t = "str" /\ last.path.s # <<>> /\ Decodes(last.path.s) /\ Target = Missing
  => err # "none" /\ heap = pre /\ At(heap, last.path.s) = Missing

C18_StrRefused ==
  /\ LastIs(kStrDel) /\ Target.t = "list" /\ Refused("TypeMismatch")
C18_IncOperandRefused ==
  /\ LastIs(kInc) /\ last.inc.t = "str" /\ Target = IntV(5) /\ Refused("TypeMismatch")

\* what stops a walk from v along tokens that all must lead on: nothing, an
\* absent key of a Map, a token that names no element of a List, or a
\* value that holds nothing
RECURSIVE Astray(_, _, _)
Astray(H, v, toks) ==
  IF toks = <<>> THEN "none"
  ELSE CASE v.t = "map" ->
              IF Head(toks) \in DOMAIN H.maps[v.id]
                THEN Astray(H, H.maps[v.id][Head(toks)], Tail(toks))
                ELSE "key"
         [] v.t = "list" ->
              IF Head(toks) # tDash /\ Atoi(Head(toks)).ok
                   /\ Atoi(Head(toks)).n >= 0 /\ Atoi(Head(toks)).n < v.len
                THEN Astray(H, ElemAt(H, v, Atoi(Head(toks)).n), Tail(toks))
                ELSE "index"
         [] OTHER -> "kind"
AstrayAt(H, raw) == Astray(H, Doc, Front(Tokens(raw)))
AstrayErrors(f) ==
  CASE f = "key" -> {"PathNotFound"}
    [] f = "index" -> {"InvalidIndex", "IndexOutOfBounds"}
    [] f = "kind" -> {"NonContainerTraversal"}
    [] OTHER -> {}
\* an operation with a path that is not the root
OnPath == last.op.t = "str" /\ last.path.t = "str" /\ last.path.s # <<>> /\ Decodes(last.path.s)
\* a copy or a move whose path was resolved, come to the resolution of from
FromResolved ==
  /\ OnPath /\ last.op.s \in {kCopy, kMove} /\ last.from.t = "str" /\ Decodes(last.from.s)
  /\ resolvePath(pre, last.path.s).err = "none"
  /\ last.op.s = kMove => ~Nested(last.from.s, last.path.s)
\* the resolutions that every operation starts with: of path, and of from
C20_FirstResolutions ==
  /\ OnPath /\ AstrayAt(pre, last.path.s) # "none"
       => err \in AstrayErrors(AstrayAt(pre, last.path.s)) /\ heap = pre
  /\ FromResolved /\ AstrayAt(pre, last.from.s) # "none"
       => err \in AstrayErrors(AstrayAt(pre, last.from.s)) /\ heap = pre
\* a move took its value out and then found its path gone astray
MoveAstray ==
  /\ OnPath /\ last.op.s = kMove /\ AstrayAt(pre, last.path.s) = "none"
  /\ AstrayAt(heap, last.path.s) # "none" /\ err \in AstrayErrors(AstrayAt(heap, last.path.s))

\* C20: a token before the last of a pointer must name an existing key when
\* the walk stands at a Map (else PathNotFound), an index i with
\* 0 <= i < length, and not '-', when it stands at a List (else an invalid
\* index or IndexOutOfBounds error), and the walk cannot stand at anything
\* else (NonContainerTraversal); a resolution that fails so leaves the
\* document as it was before the operation.
C20_NonFinalTokens == C20_FirstResolutions /\ (MoveAstray => heap = pre)

\* a remove through '-' before the last token was refused, and a move that
\* took its value out of a List failed on the index that this left dangling
C20_Refused ==
  /\ OnPath /\ last.op.s = kRemove /\ last.path.s = Path(<<kl, tDash, kx>>)
  /\ err = "InvalidIndex" /\ heap = pre
C20_MoveAstray == MoveAstray /\ err = "IndexOutOfBounds" /\ heap # pre

\* the last operation succeeded on a path whose last token names a
\* position of a List
AtListPosition(kind) ==
  /\ LastIs(kind) /\ err = "none" /\ Decodes(last.path.s)
  /\ ParentAt(pre, last.path.s).t = "list"
\* the List found from the root at the place of path is the old one with v in
C19_Inserted(P, v) ==
  InsertedAt(heap, ParentAt(heap, last.path.s), pre, P, pre, v,
             ListIndex(Leaf(Tokens(last.path.s)), P.len).n)
C19_Removed(raw, P) ==
  RemovedAt(heap, ParentAt(heap, raw), pre, P, Atoi(Leaf(Tokens(raw))).n)
\* from and path of a move lie apart: one of them is a key of the root and
\* the other does not pass through it
RootKeyApart(a, b) == Len(Tokens(a)) = 1 /\ Head(Tokens(b)) # Head(Tokens(a))
C19_MoveHalves ==
  /\ SameList(last.from.s, last.path.s) =>
       Rearranged(heap, ParentAt(heap, last.path.s), pre, ParentAt(pre, last.from.s),
                  Atoi(Leaf(Tokens(last.from.s))).n,
                  ListIndex(Leaf(Tokens(last.path.s)), ParentAt(pre, last.from.s).len - 1).n)
  /\ ParentAt(pre, last.from.s).t = "list" /\ RootKeyApart(last.path.s, last.from.s) =>
       C19_Removed(last.from.s, ParentAt(pre, last.from.s))
  /\ ParentAt(pre, last.path.s).t = "list" /\ RootKeyApart(last.from.s, last.path.s) =>
       C19_Inserted(ParentAt(pre, last.path.s), At(pre, last.from.s))

\* C19: after a successful add, copy, remove or move at a position of a
\* List, at any depth and after any earlier edits of the batch, the List
\* found from the root at that place is the updated one: the old elements
\* with the value put in at the index (add, copy, the second half of move)
\* or without the element at the index (remove, the first half of move).
C19_WriteBack ==
  /\ AtListPosition(kAdd) => C19_Inserted(ParentAt(pre, last.path.s), last.value)
  /\ AtListPosition(kCopy) => C19_Inserted(ParentAt(pre, last.path.s), At(pre, last.from.s))
  /\ AtListPosition(kRemove) => C19_Removed(last.path.s, ParentAt(pre, last.path.s))
  /\ LastIs(kMove) /\ err = "none" /\ Decodes(last.path.s) /\ Decodes(last.from.s)
       => C19_MoveHalves

\* the value that the container c holds under the key k or at the index j
HeldBy(H, c, k, j) ==
  CASE c.t = "map" -> IF k \in DOMAIN H.maps[c.id] THEN H.maps[c.id][k] ELSE Missing
    [] c.t = "list" -> IF j >= 0 /\ j < c.len THEN ElemAt(H, c, j) ELSE Missing
    [] OTHER -> Missing
\* what the resolver gives for the last token tok under the parent P
C21_Final(r, P, tok) ==
  CASE P.t = "map" -> r.err = "none" /\ r.parent = P /\ r.finalKey = tok
    [] P.t = "list" ->
         IF tok = tDash THEN r.err = "none" /\ r.parent = P /\ r.finalIndex = P.len
         ELSE IF Atoi(tok).ok THEN r.err = "none" /\ r.parent = P /\ r.finalIndex = Atoi(tok).n
         ELSE r.err = "InvalidIndex"
    [] OTHER -> r.err = "NonContainerBeforeFinal"
\* the link to the container that holds the parent
C21_Link(r, toks) ==
  r.err = "none" /\ Len(toks) >= 2 =>
    /\ r.cp = ValueAt(pre, Doc, Front(Front(toks)))
    /\ HeldBy(pre, r.cp, r.cpKey, r.cpIdx) = r.parent
\* what the operation makes of it: the error of the resolver is the error
\* of the operation, and an add under a Map sets the very key
C21_Seen(r, P, tok) ==
  /\ r.err # "none" => err = r.err /\ heap = pre
  /\ P.t = "map" /\ last.op.s = kAdd /\ last.value # Absent =>
       err = "none" /\ DOMAIN heap.maps[P.id] = DOMAIN pre.maps[P.id] \cup {tok}

\* C21: for the last token of a pointer the resolver takes the decoded
\* token as the key when the parent is a Map, present or not ('0' and '-'
\* are keys like others); when the parent is a List it takes '-' as the
\* index that equals the length, and any other token as the integer it
\* parses as, of whatever size, failing when it is no integer; it fails with
\* the before-final-segment error when the parent is neither; and it gives
\* the container that holds the parent with the key or index under which it
\* holds it.
C21_FinalToken ==
  OnPath /\ AstrayAt(pre, last.path.s) = "none" =>
    LET r == resolvePath(pre, last.path.s)
        toks == Tokens(last.path.s)
        P == ValueAt(pre, Doc, Front(toks))
    IN /\ C21_Final(r, P, Leaf(toks))
       /\ C21_Link(r, toks)
       /\ C21_Seen(r, P, Leaf(toks))

\* an add of '-' under a Map made '-' a key of it, after an add of '0' had
\* made '0' one
C21_Witness ==
  /\ OnPath /\ last.op.s = kAdd /\ err = "none" /\ last.path.s = Path(<<ka, tDash>>)
  /\ DOMAIN heap.maps[At(heap, Path(<<ka>>)).id] = {kb, t0, tDash}
\* the resolver let an index far past the end of a List through
C21_Unchecked ==
  /\ OnPath /\ last.path.s = Path(<<kl, t1, t4>>) /\ err = "IndexOutOfBounds"
  /\ resolvePath(pre, last.path.s).err = "none" /\ resolvePath(pre, last.path.s).finalIndex = 4
  /\ resolvePath(pre, last.path.s).cpIdx = 1

\* the escaped form of a key: '~' becomes '~0', then '/' becomes '~1'
RECURSIVE Escaped(_)
Escaped(k) ==
  IF k = <<>> THEN <<>>
  ELSE (IF Head(k) = chTilde THEN <<chTilde, chZero>>
        ELSE IF Head(k) = chSlash THEN <<chTilde, chOne>> ELSE <<Head(k)>>) \o Escaped(Tail(k))
\* every '~' of the segment starts '~0' or '~1'
WellEscaped(g) ==
  \A j \in 1..Len(g) : g[j] = chTilde => j < Len(g) /\ g[j + 1] \in {chZero, chOne}
\* the segment read in one pass from the left: the characters that do not
\* follow a '~', with each '~' turned into what its pair stands for
StartsOf(g) == SelectSeq([j \in 1..Len(g) |-> j], LAMBDA j : j = 1 \/ g[j - 1] # chTilde)
InOnePass(g) ==
  [m \in 1..Len(StartsOf(g)) |->
     IF g[StartsOf(g)[m]] # chTilde THEN g[StartsOf(g)[m]]
     ELSE IF g[StartsOf(g)[m] + 1] = chZero THEN chTilde ELSE chSlash]
Segments(raw) == Split(TrimPrefix(raw, <<chSlash>>), chSlash)
C22_Decoded(g) ==
  /\ decodePointerSegment(g).ok = WellEscaped(g)
  /\ WellEscaped(g) => decodePointerSegment(g).s = InOnePass(g)
  /\ (\A j \in 1..Len(g) : g[j] # chTilde) => decodePointerSegment(g).s = g
C22_RoundTrip(k) ==
  Escaped(k) # k =>
    /\ decodePointerSegment(Escaped(k)) = [ok |-> TRUE, s |-> k]
    /\ At(heap, Path(<<Escaped(k)>>)) = heap.maps[Doc.id][k]
\* an operation with a path of one segment that is the escaped form of a
\* key of the document reaches that key
C22_Addressed ==
  \A k \in DOMAIN pre.maps[Doc.id] :
    /\ last.path.s = Path(<<Escaped(k)>>)
    /\ last.op.s = kRemove \/ (last.op.s = kReplace /\ last.value # Absent)
    =>
      /\ err = "none"
      /\ IF last.op.s = kRemove THEN k \notin DOMAIN heap.maps[Doc.id]
         ELSE heap.maps[Doc.id][k] = last.value

\* C22: a pointer segment is decoded in one pass from the left, '~1' to
\* '/' and '~0' to '~' ('~01' gives '~1'), a segment without '~' is left as
\* it is, and a '~' that ends the segment or stands before another
\* character makes the pointer invalid; so the escaped form of every key
\* ('~' to '~0', then '/' to '~1') decodes back to the key, and a key with
\* '/' or '~' in it is reached through its escaped form.
C22_Decoding ==
  /\ last.op.t = "str" /\ last.path.t = "str" /\ last.path.s # <<>> =>
       /\ LET segs == Segments(last.path.s)
          IN /\ \A j \in 1..Len(segs) : C22_Decoded(segs[j])
             /\ ~WellEscaped(segs[1]) => err = "InvalidPointer" /\ heap = pre
       /\ C22_Addressed
  /\ \A k \in DOMAIN heap.maps[Doc.id] : C22_RoundTrip(k)

\* a replace through '/~01' set the key '~1', and the keys 'a/b' and 'm~n'
\* are there to be reached
C22_Witness ==
  /\ last.op.t = "str" /\ last.op.s = kReplace /\ err = "none"
  /\ last.path = Str(<<chSlash, chTilde, chZero, chOne>>)
  /\ heap.maps[Doc.id][kTilde1] = Nine /\ {kab, kmn} \subseteq DOMAIN heap.maps[Doc.id]
\* a trailing '~' was refused
C22_Refused ==
  /\ last.op.t = "str" /\ last.path = Str(Path(<<ka, <<97, chTilde>>>>))
  /\ err = "InvalidPointer" /\ heap = pre

\* the strings that one of the first two string operations of a batch found
\* and left at its path, the short ones, and the offsets and lengths around
\* them
C23_Texts ==
  IF last.op.t = "str" /\ last.op.s \in {kStrIns, kStrDel} /\ last.path.t = "str"
       /\ last.path.s # <<>> /\ Decodes(last.path.s) /\ i <= 2
    THEN {v.s : v \in {w \in {At(pre, last.path.s), At(heap, last.path.s)} :
                         w.t = "str" /\ Len(w.s) <= 5}}
    ELSE {}
C23_Offsets(text) == (0 - 1)..(Len(Units(text)) + 2)
C23_Lens == (0 - 1)..3
\* k is the greatest count of leading code points that take at most off units
Greatest(text, off, k) ==
  /\ k \in 0..Len(text) /\ UnitsBefore(text, k) <= off
  /\ k < Len(text) => UnitsBefore(text, k + 1) > off
C23_Index(text, off) ==
  /\ off <= 0 => utf16OffsetToRuneIndex(text, off) = 0
  /\ off > 0 => Greatest(text, off, utf16OffsetToRuneIndex(text, off))
  /\ off >= Len(Units(text)) => utf16OffsetToRuneIndex(text, off) = Len(text)
  /\ InsidePair(text, off) =>
       /\ text[utf16OffsetToRuneIndex(text, off) + 1] > MaxBMP
       /\ UnitsBefore(text, utf16OffsetToRuneIndex(text, off)) = off - 1
  /\ utf16OffsetToRuneIndex(text, off) <= utf16OffsetToRuneIndex(text, off + 1)
C23_Length(text, start, len) ==
  utf16LenToRuneLen(text, start, len) =
    IF len <= 0 THEN 0 ELSE CodePointIndex(text, start + len) - CodePointIndex(text, start)

\* C23: utf16OffsetToRuneIndex(text, off) is the greatest k such that the
\* first k code points of text take at most off UTF-16 code units: 0 for
\* off <= 0, the number of code points for off at or past the length in
\* units, and the index of the supplementary code point when off falls
\* inside its pair; it never decreases as off grows. utf16LenToRuneLen(text,
\* start, len) is the difference of the indices of start+len and start for
\* len > 0 and 0 otherwise: 1 for 'a<U+1F30D>b', start 1, len 2.
C23_Translation ==
  /\ \A text \in C23_Texts :
       /\ \A off \in C23_Offsets(text) : C23_Index(text, off)
       /\ \A off \in C23_Offsets(text) : \A len \in C23_Lens : C23_Length(text, off, len)
  /\ utf16LenToRuneLen(<<97, Globe, 98>>, 1, 2) = 1

\* a deletion of two code units at offset 1 of 'a<U+1F30D>b' took the one
\* code point of the pair away
C23_Witness ==
  /\ LastIs(kStrDel) /\ err = "none" /\ last.str = Absent
  /\ last.pos = One /\ last.len = IntV(2)
  /\ At(pre, last.path.s) = Str(<<97, Globe, 98>>) /\ At(heap, last.path.s) = Str(<<97, 98>>)
  /\ <<97, Globe, 98>> \in C23_Texts

\* the last operation was a move
WasMove == last.op = Str(kMove) /\ last.path.t = "str" /\ last.path.s # <<>>

\* C24: an operation other than a move that returns an error - an add,
\* remove, replace, copy, test, str_ins, str_del, inc, an operation on the
\* root, a malformed one or one of an unknown kind - leaves the document
\* exactly as it was before the operation.
C24_AllOrNothing == err # "none" /\ ~WasMove => heap = pre

\* an add at an index past the end of a List was refused after an earlier
\* operation had changed the document, which stayed as that one left it
C24_Witness ==
  /\ LastIs(kAdd) /\ err = "IndexOutOfBounds" /\ i = 2
  /\ ParentAt(pre, last.path.s).t = "list"
  /\ heap = pre /\ DocTree(heap) # InitDoc(sc)
\* a copy from a place that is not there was refused as well
C24_CopyRefused ==
  /\ LastIs(kCopy) /\ err # "none" /\ i = 2 /\ heap = pre /\ DocTree(heap) # InitDoc(sc)
\* C25: a move that returns an error leaves the document exactly as it was
\* before it; when the path cannot be resolved or its index is out of range
\* once the value has been taken out, the value is still at from.
C25_FailedMove ==
  WasMove /\ err # "none" =>
    /\ heap = pre
    /\ last.from.t = "str" /\ Decodes(last.from.s) => At(heap, last.from.s) = At(pre, last.from.s)

\* the move of the first element of a List to the index that was its length
\* failed on the shortened List, and the element is gone
C25_Lost ==
  /\ WasMove /\ err = "IndexOutOfBounds" /\ SameList(last.from.s, last.path.s)
  /\ ParentAt(heap, last.from.s).len = ParentAt(pre, last.from.s).len - 1
  /\ Tree(pre, At(pre, last.from.s)) = One
  /\ \A j \in 0..(ParentAt(heap, last.from.s).len - 1) :
       Tree(heap, ElemAt(heap, ParentAt(heap, last.from.s), j)) # One

\* the operation just done was a copy of a Map or a List to a place apart
\* from its source
CopiedContainer ==
  /\ LastIs(kCopy) /\ err = "none" /\ last.from.t = "str"
  /\ Decodes(last.from.s) /\ Decodes(last.path.s)
  /\ At(pre, last.from.s).t \in {"map", "list"}
  /\ Apart(last.from.s, last.path.s) /\ ~IsPrefix(Tokens(last.path.s), Tokens(last.from.s))
  /\ Leaf(Tokens(last.path.s)) # tDash
Edits == {kAdd, kRemove, kReplace, kInc, kStrIns, kStrDel}
\* the next operation is a successful edit beneath the pointer raw
EditsBeneath(raw) ==
  /\ i' = i + 1 /\ err' = "none"
  /\ last'.op.t = "str" /\ last'.op.s \in Edits /\ last'.path.t = "str"
  /\ Decodes(last'.path.s)
  /\ IsPrefix(Tokens(raw), Front(Tokens(last'.path.s)))
\* the value at the pointer raw is after the step what it was before
Untouched(raw) == Tree(heap', At(heap', raw)) = Tree(heap, At(heap, raw))
C26_Step ==
  CopiedContainer =>
    /\ EditsBeneath(last.path.s) => Untouched(last.from.s)
    /\ EditsBeneath(last.from.s) => Untouched(last.path.s)

\* C26: after a successful copy of a Map or a List the values at from and
\* at path are independent: a following edit beneath path (add, remove,
\* replace, inc, str_ins, str_del) leaves the value at from as it was, and
\* one beneath from leaves the value at path as it was.
C26_CopyIndependent == [][C26_Step]_vars

\* the operation just done was an add or a replace, on the root or beneath
\* it, that put the Map or List of its value field into the document
InstalledContainer ==
  /\ last.op.t = "str" /\ last.op.s \in {kAdd, kReplace} /\ last.path.t = "str"
  /\ err = "none" /\ last.value.t \in {"map", "list"}
  /\ Decodes(last.path.s) /\ (last.path.s = <<>> \/ Leaf(Tokens(last.path.s)) # tDash)
PlaceOf(raw) == IF raw = <<>> THEN <<>> ELSE Tokens(raw)
\* the next operation is a successful edit at or beneath the tokens place
EditsWithin(place) ==
  /\ i' = i + 1 /\ err' = "none"
  /\ last'.op.t = "str" /\ last'.op.s \in Edits /\ last'.path.t = "str"
  /\ last'.path.s # <<>> /\ Decodes(last'.path.s)
  /\ IsPrefix(place, Front(Tokens(last'.path.s)))
\* the value field of the operation just done denotes after the next step
\* what it denoted before
C27_Step ==
  InstalledContainer /\ EditsWithin(PlaceOf(last.path.s)) =>
    Tree(heap', last.value) = Tree(heap, last.value)

\* C27: Apply does not modify the operations it is given: the Map or List
\* that an add, a replace or a root replace brought as its value is after
\* every later operation of the batch what it was, also when that operation
\* edits the place of the document where the value was put.
C27_OperationsKept == [][C27_Step]_vars

\* trees a and b are the same except at the place toks and beneath it; the
\* Maps on the way to the place have the same keys, the Lists the same length
RECURSIVE SameBut(_, _, _)
SameBut(a, b, toks) ==
  IF toks = <<>> THEN TRUE
  ELSE CASE a.t = "M" ->
              /\ b.t = "M" /\ DOMAIN b.m = DOMAIN a.m
              /\ \A k \in DOMAIN a.m :
                   IF k = Head(toks) THEN SameBut(a.m[k], b.m[k], Tail(toks))
                   ELSE b.m[k] = a.m[k]
         [] a.t = "L" ->
              /\ b.t = "L" /\ Len(b.e) = Len(a.e)
              /\ \A j \in 1..Len(a.e) :
                   IF Atoi(Head(toks)).ok /\ Atoi(Head(toks)).n = j - 1
                     THEN SameBut(a.e[j], b.e[j], Tail(toks))
                     ELSE b.e[j] = a.e[j]
         [] OTHER -> b = a
\* the containers of a tree keep their keys and lengths from a to b
RECURSIVE SameShape(_, _)
SameShape(a, b) ==
  CASE a.t = "M" ->
         /\ b.t = "M" /\ DOMAIN b.m = DOMAIN a.m
         /\ \A k \in DOMAIN a.m : SameShape(a.m[k], b.m[k])
    [] a.t = "L" ->
         /\ b.t = "L" /\ Len(b.e) = Len(a.e)
         /\ \A j \in 1..Len(a.e) : SameShape(a.e[j], b.e[j])
    [] OTHER -> b.t \notin {"M", "L"}
ValueEdits == {kReplace, kInc, kStrIns, kStrDel, kTest}
SucceededAt(kinds) ==
  /\ last.op.t = "str" /\ last.op.s \in kinds /\ err = "none"
  /\ last.path.t = "str" /\ last.path.s # <<>> /\ Decodes(last.path.s)
\* a successful replace, inc, str_ins, str_del or test changes the target only
C28_TargetOnly ==
  SucceededAt(ValueEdits) => SameBut(DocTree(pre), DocTree(heap), Tokens(last.path.s))
\* the operations on a scalar target keep every key set and every length
C28_ShapeKept ==
  SucceededAt(ValueEdits \ {kReplace}) => SameShape(DocTree(pre), DocTree(heap))
\* a successful add or remove changes the parent container only
C28_ParentOnly ==
  SucceededAt({kAdd, kRemove}) =>
    SameBut(DocTree(pre), DocTree(heap), Front(Tokens(last.path.s)))

\* C28: a successful replace, inc, str_ins, str_del or test at a path other
\* than the root changes the value at its target and nothing else: every
\* Map keeps its keys, every List its length, and every value that is not
\* at or beneath the target is what it was; a successful add or remove
\* changes nothing outside the parent container the path names.
C28_Frame == C28_TargetOnly /\ C28_ShapeKept /\ C28_ParentOnly

\* a test with a value whose path names a value of the document
TestOnValue ==
  /\ LastIs(kTest) /\ last.value # Absent /\ Decodes(last.path.s)
  /\ At(pre, last.path.s) # Missing
\* the comparator gives one verdict whichever of the two values comes first
C29_Commutes ==
  TestOnValue =>
    (jsonEqual(pre, At(pre, last.path.s), last.value)
       <=> jsonEqual(pre, last.value, At(pre, last.path.s)))
\* the test succeeds iff the given value, compared against the document's, is equal
C29_Verdict ==
  TestOnValue =>
    (err = "none" <=> jsonEqual(pre, last.value, At(pre, last.path.s)))

\* C29: the comparator of test is symmetric over values of all kinds, those
\* it has no case for and compares by their text included: jsonEqual(a, b)
\* is jsonEqual(b, a), so a test of a document value d against v gives the
\* verdict that comparing v against d gives.
C29_Symmetric == C29_Commutes /\ C29_Verdict

\* a str_del on a String with a numeric pos, a numeric len and no str
StrDelByLen ==
  StrDelOnString /\ last.str = Absent /\ last.len # Absent /\ getNumericValue(last.len).ok
\* the code point j of text lies, in whole or in part, in the code units [lo, hi)
Covers(text, j, lo, hi) ==
  /\ Len(Units(SubSeq(text, 1, j - 1))) < hi
  /\ Len(Units(SubSeq(text, 1, j))) > lo
\* text from its code point j on, without the code points lying in [lo, hi)
RECURSIVE WithoutUnits(_, _, _, _)
WithoutUnits(text, j, lo, hi) ==
  IF j > Len(text) THEN <<>>
  ELSE (IF Covers(text, j, lo, hi) THEN <<>> ELSE <<text[j]>>)
         \o WithoutUnits(text, j + 1, lo, hi)
C30_Span(old, off, ln) ==
  IF off < 0 \/ ln < 0 \/ off + ln > Len(Units(old))
    THEN err # "none" /\ StringKept
    ELSE err = "none" /\ At(heap, last.path.s) = Str(WithoutUnits(old, 1, off, off + ln))

\* C30: a str_del with len and no str deletes, when it succeeds, exactly the
\* characters lying in the UTF-16 code units [pos, pos+len); it fails, the
\* string staying as it was, when pos+len is past the end of the string or
\* when pos or len is negative.
C30_DeleteByLen ==
  StrDelByLen =>
    C30_Span(At(pre, last.path.s).s, TruncInt(last.pos.x2), TruncInt(last.len.x2))

====
